---- MODULE Spec2Model ----
(***************************************************************************)
(* Model of the IX.br status bot's ingestion and delivery pipeline:        *)
(* RSSMonitor.fetch_events, IXBRBot.check_rss_updates and the reconcile /  *)
(* flush / sweep steps it drives, over the Database tables sent_messages,  *)
(* pending_notifications and subscribed_chats.                             *)
(*                                                                         *)
(* Time is in minutes since day 0, 00:00 UTC.  A "HH:MM" string is held as *)
(* the pair <<HH, MM>> that split(":") and int() produce from it.          *)
(* A content hash is held as the tuple of the fields that are hashed, so   *)
(* that two hashes are equal exactly when the hashed fields are.           *)
(***************************************************************************)
EXTENDS Integers, Sequences, FiniteSets, TLC

\* ------------------------------------------------------------------ bounds
MaxDay == 1
MaxCycles == 2
MaxCommands == 1
MaxFaults == 1
DeliveredCap == 2
MaxBatch == 7
MaxBackupRows == 3
MaxCalls == 3
MaxRateCommands == 4

\* ------------------------------------------------------- program constants
MinutesPerDay == 24 * 60
\* Config.max_message_age_days at the smallest value its validator admits (ge=1).
max_message_age_days == 1
NULL == -1
\* pending[:5]: the number of titles a summary lists.
SummaryLimit == 5
\* Config.rate_limit_commands (default 10, ge=1), at a small admissible value.
rate_limit_commands == 2
\* get_command_count(chat_id, seconds=60): the window, in minutes.
RateWindow == 1
\* cleanup_command_log(seconds=300): the age kept, in minutes.
CommandLogAge == 5

Chats == {1, 2}
Guids == {"g1", "g2"}
GuidOrder == <<"g1", "g2">>
ChatOrder == <<1, 2>>

\* The clock readings the environment may produce within a day.
Noon == 12 * 60
LateEvening == 23 * 60 + 30
ClockReadings == {Noon, LateEvening}

TIMEZONES == [tz \in {"UTC", "BRT", "AMT", "ACT", "FNT"} |->
                CASE tz = "UTC" -> 0
                  [] tz = "BRT" -> -3
                  [] tz = "AMT" -> -4
                  [] tz = "ACT" -> -5
                  [] tz = "FNT" -> -2]

\* Quiet-window settings a chat may store: none, or 22:00-07:00 UTC.
NoWindow == [quiet_hours_start |-> <<>>, quiet_hours_end |-> <<>>, quiet_hours_tz |-> "UTC"]
NightWindow == [quiet_hours_start |-> <<22, 0>>, quiet_hours_end |-> <<7, 0>>, quiet_hours_tz |-> "UTC"]
Windows == {NoWindow, NightWindow}

\* Raw feed entries: the two renderings an upstream announcement may have.
\* flags is the set of keyword classes occurring in title + " " + description.
EntryV1 == [title |-> "T1", description |-> "d1", flags |-> {"incident"}]
EntryV2 == [title |-> "T2", description |-> "d2", flags |-> {"incident", "resolved"}]
EntryVersions == {EntryV1, EntryV2}

NoEntry == [title |-> "", description |-> "", flags |-> {}, published |-> NULL, link |-> "",
            broken |-> FALSE, has_id |-> FALSE]
NoRow == [present |-> FALSE, is_active |-> FALSE, quiet_hours_start |-> <<>>,
          quiet_hours_end |-> <<>>, quiet_hours_tz |-> "UTC"]
NoRecord == [message_guid |-> "", chat_id |-> 0, telegram_message_id |-> NULL,
             content_hash |-> <<>>, message_title |-> "", sent_at |-> NULL,
             updated_at |-> NULL, delivery_status |-> ""]

VARIABLES
    now,                   \* wall clock, minutes since day 0 00:00 UTC
    feed,                  \* upstream feed: guid -> raw entry or NoEntry
    subscribed_chats,      \* table subscribed_chats: chat id -> row or NoRow
    sent_messages,         \* table sent_messages: set of rows
    pending_notifications, \* table pending_notifications: rows in rowid order
    consecutive_failures,  \* RSSMonitor._consecutive_failures
    last_successful_fetch, \* RSSMonitor._last_successful_fetch (NULL = None)
    pc,                    \* position of check_rss_updates
    cycles,                \* number of cycles the job queue has started
    commands,              \* number of chat commands handled
    command_log,           \* table command_log: rows in rowid order
    faults,                \* number of steps in which a transport call raised TelegramError
    attempt,               \* loop variable of fetch_events
    events,                \* local of check_rss_updates
    active_chats,          \* local of check_rss_updates (the snapshot)
    ei,                    \* index of the event being reconciled
    ci,                    \* index of the chat being reconciled / flushed
    last,                  \* history: what the last pipeline step did
    delivered,             \* history: messages delivered per (guid, chat) since
                           \* the entry's content last changed
    summarised,            \* history: (guid, chat) covered by a summary flush
                           \* since the entry's content last changed
    flushedSingle,         \* history: (guid, chat) delivered by a flush of exactly
                           \* one pending notification
    awaiting               \* history: (guid, chat) whose send failed with a transient
                           \* error and that no transport call has reached since

vars == <<now, feed, subscribed_chats, sent_messages, pending_notifications,
          consecutive_failures, last_successful_fetch, pc, cycles, commands, command_log,
          faults, attempt, events, active_chats, ei, ci, last, delivered, summarised,
          flushedSingle, awaiting>>


\* ------------------------------------------------------------ pure helpers
Day(t) == t \div MinutesPerDay

\* datetime.time(h, m) as minutes since midnight.
TimeOfDay(hm) == hm[1] * 60 + hm[2]

\* The offset added to the UTC time of day without wrapping at midnight.
LocalWithoutWrap(t, offsetHours) == (t % MinutesPerDay) + offsetHours * 60

\* (now_utc + timedelta(hours=offset)).time()
LocalTimeOfDay(t, offsetHours) == (t + offsetHours * 60) % MinutesPerDay

TzOffset(tz) == IF tz \in DOMAIN TIMEZONES THEN TIMEZONES[tz] ELSE 0

\* The window test with the end bound excluded.
IsQuietHalfOpen(quiet_start, quiet_end, quiet_tz, t) ==
    IF quiet_start = <<>> \/ quiet_end = <<>>
    THEN FALSE
    ELSE LET nowT  == LocalTimeOfDay(t, TzOffset(quiet_tz))
             start == TimeOfDay(quiet_start)
             end   == TimeOfDay(quiet_end)
         IN  IF start > end
             THEN nowT >= start \/ nowT < end
             ELSE start <= nowT /\ nowT < end

IsQuietAt(quiet_start, quiet_end, quiet_tz, t) ==
    IF quiet_start = <<>> \/ quiet_end = <<>>
    THEN FALSE
    ELSE LET nowT  == LocalTimeOfDay(t, TzOffset(quiet_tz))
             start == TimeOfDay(quiet_start)
             end   == TimeOfDay(quiet_end)
         IN  IF start > end
             THEN nowT >= start \/ nowT <= end
             ELSE start <= nowT /\ nowT <= end

\* The window test without the overnight case (start > end).
IsQuietNoWrap(chat_info) ==
    /\ chat_info.quiet_hours_start # <<>>
    /\ chat_info.quiet_hours_end # <<>>
    /\ TimeOfDay(chat_info.quiet_hours_start)
           <= LocalTimeOfDay(now, TzOffset(chat_info.quiet_hours_tz))
    /\ LocalTimeOfDay(now, TzOffset(chat_info.quiet_hours_tz))
           <= TimeOfDay(chat_info.quiet_hours_end)

\* The quiet test on the window the directory holds now, not on the row read
\* at the start of the cycle.
QuietFromDirectory(chat_info) ==
    IsQuietAt(subscribed_chats[chat_info.chat_id].quiet_hours_start,
              subscribed_chats[chat_info.chat_id].quiet_hours_end,
              subscribed_chats[chat_info.chat_id].quiet_hours_tz, now)

_is_quiet_hours(chat_info) ==
    IsQuietAt(chat_info.quiet_hours_start, chat_info.quiet_hours_end,
              chat_info.quiet_hours_tz, now)

\* Resolved beats Maintenance beats Incident beats Unknown.
ClassifyIncidentFirst(flags) ==
    IF "incident" \in flags THEN "incident"
    ELSE IF "maintenance" \in flags THEN "maintenance"
    ELSE IF "resolved" \in flags THEN "resolved"
    ELSE "unknown"

_classify_event(flags) ==
    IF "resolved" \in flags THEN "resolved"
    ELSE IF "maintenance" \in flags THEN "maintenance"
    ELSE IF "incident" \in flags THEN "incident"
    ELSE "unknown"

\* _parse_date: an entry without a parseable date gets the current time.
_parse_date(g) == IF feed[g].published = NULL THEN now ELSE feed[g].published

\* _clean_description on the descriptions used here: tags are removed.
_clean_description(d) == IF d = "<p>d1</p>" THEN "d1" ELSE d

\* _generate_guid: sha256 of f"{title}|{description}", a function of that string.
_generate_guid(title, description) == "sha256:" \o title \o "|" \o description

\* has_id tells whether the entry carries an id or guid of its own, which is
\* then the key it has in feed.
_parse_entry(g) ==
    [guid |-> IF feed[g].has_id THEN g
              ELSE _generate_guid(feed[g].title, feed[g].description),
     title |-> feed[g].title, description |-> _clean_description(feed[g].description),
     published |-> _parse_date(g), link |-> feed[g].link,
     event_type |-> _classify_event(feed[g].flags)]

\* A fingerprint that also covers the link.
HashWithLink(event) ==
    <<"sha256", event.title, event.description, event.event_type, event.link>>

get_content_hash(event) == <<"sha256", event.title, event.description, event.event_type>>

to_telegram_message(event) ==
    <<"msg", event.event_type, event.title, event.description, event.published, event.link>>

\* message_text + "\n\n<i>[Mensagem atualizada]</i>"
UpdatedText(event) == <<"updated", to_telegram_message(event)>>

\* ------------------------------------------------------- transport errors
\* str(e) of a TelegramError, kept as the text and the phrases of the
\* vocabulary below that occur in it, in the case they are written in.
NoError == [text |-> "", phrases |-> {}]

TelegramErrors ==
    {[text |-> "Timed out", phrases |-> {}],
     [text |-> "Forbidden: bot was blocked by the user",
      phrases |-> {"Forbidden", "blocked"}],
     [text |-> "Forbidden: user is deactivated",
      phrases |-> {"Forbidden", "deactivated"}],
     [text |-> "Forbidden: bot was kicked from the group chat",
      phrases |-> {"Forbidden", "kicked"}],
     [text |-> "Forbidden: bot is not a member of the channel chat",
      phrases |-> {"Forbidden"}],
     [text |-> "Bad Request: chat not found",
      phrases |-> {"not found", "chat not found"}]}

\* str.lower() on the phrases of the vocabulary.
Lower(w) == IF w = "Forbidden" THEN "forbidden" ELSE w

permanent_errors == {"blocked", "deactivated", "not found", "chat not found", "kicked", "forbidden"}

\* The test without str(e).lower().
IsPermanentCaseSensitive(e) == e.phrases \cap permanent_errors # {}

\* A test that takes every TelegramError for a permanent one.
IsPermanentAlways(e) == TRUE

\* any(x in error_str for x in permanent_errors)
IsPermanent(e) == {Lower(w) : w \in e.phrases} \cap permanent_errors # {}

PendingDelivered == <<"pending_delivered">>
PendingSummary == <<"pending_summary">>

\* -------------------------------------------------------------- the ledger
RowsFor(rows, g, c) == {r \in rows : r.message_guid = g /\ r.chat_id = c}

\* A lookup that finds no row, as one with the wrong key would.
LookupMiss(rows, g, c) == NoRecord

\* SELECT ... WHERE message_guid = ? AND chat_id = ?; fetchone()
get_sent_message(rows, g, c) ==
    IF RowsFor(rows, g, c) = {} THEN NoRecord ELSE CHOOSE r \in RowsFor(rows, g, c) : TRUE

NewRecord(g, c, msgId, hash, title, t) ==
    [message_guid |-> g, chat_id |-> c, telegram_message_id |-> msgId,
     content_hash |-> hash, message_title |-> title, sent_at |-> t,
     updated_at |-> NULL, delivery_status |-> "sent"]

\* A plain INSERT that ignores the UNIQUE(message_guid, chat_id) constraint.
InsertWithoutReplace(rows, g, c, msgId, hash, title, t) ==
    rows \cup {NewRecord(g, c, msgId, hash, title, t)}

\* INSERT OR REPLACE: the row holding the unique key, if any, is deleted first.
\* An upsert that keeps the updated_at of the row it replaces.
MarkKeepingUpdatedAt(rows, g, c, msgId, hash, title, t) ==
    (rows \ RowsFor(rows, g, c))
        \cup {[NewRecord(g, c, msgId, hash, title, t) EXCEPT
                  !.updated_at = IF RowsFor(rows, g, c) = {}
                                 THEN NULL
                                 ELSE (CHOOSE r \in RowsFor(rows, g, c) : TRUE).updated_at]}

\* An upsert that stores 'failed' when it replaces a row, as if the message
\* it replaces had been lost.
MarkReplacementFailed(rows, g, c, msgId, hash, title, t) ==
    (rows \ RowsFor(rows, g, c))
        \cup {[NewRecord(g, c, msgId, hash, title, t) EXCEPT
                  !.delivery_status = IF RowsFor(rows, g, c) = {} THEN "sent" ELSE "failed"]}

mark_message_sent(rows, g, c, msgId, hash, title, t) ==
    (rows \ RowsFor(rows, g, c)) \cup {NewRecord(g, c, msgId, hash, title, t)}

\* An UPDATE that leaves content_hash as it was.
UpdateWithoutHash(rows, g, c, hash, title, t) ==
    {IF r.message_guid = g /\ r.chat_id = c
     THEN [r EXCEPT !.message_title = title, !.updated_at = t]
     ELSE r : r \in rows}

\* UPDATE ... SET content_hash, message_title, updated_at WHERE key.
update_message_record(rows, g, c, hash, title, t) ==
    {IF r.message_guid = g /\ r.chat_id = c
     THEN [r EXCEPT !.content_hash = hash, !.message_title = title, !.updated_at = t]
     ELSE r : r \in rows}

\* Timestamps as the store compares them, as text. CURRENT_TIMESTAMP writes
\* 'YYYY-MM-DD HH:MM:SS' (UTC); datetime.isoformat() gives
\* 'YYYY-MM-DDTHH:MM:SS' (the host clock, taken to run on UTC). A text is a
\* triple of date, separator and time of day.
SqlTimestamp(t) == <<Day(t), " ", t % MinutesPerDay>>
IsoFormat(t) == <<Day(t), "T", t % MinutesPerDay>>

CharCode(ch) == IF ch = " " THEN 32 ELSE 84

\* a < b for two such texts, character by character.
TextLess(a, b) ==
    \/ a[1] < b[1]
    \/ /\ a[1] = b[1]
       /\ \/ CharCode(a[2]) < CharCode(b[2])
          \/ a[2] = b[2] /\ a[3] < b[3]

\* DELETE FROM sent_messages WHERE sent_at < cutoff.isoformat(), with
\* cutoff = datetime.now() - timedelta(days=max_message_age_days * 2).
cleanup_old_messages(rows, t) ==
    {r \in rows :
        ~TextLess(SqlTimestamp(r.sent_at),
                  IsoFormat(t - 2 * max_message_age_days * MinutesPerDay))}

\* ------------------------------------------------------- the command log
\* INSERT INTO command_log (chat_id, command); timestamp is CURRENT_TIMESTAMP.
log_command(log, c, command, t) ==
    Append(log, [chat_id |-> c, command |-> command, timestamp |-> t])

\* SELECT COUNT(*) FROM command_log WHERE chat_id = ? AND timestamp > ?, the
\* parameter being (datetime.now() - timedelta(seconds=60)).isoformat().
get_command_count(log, c, t) ==
    Cardinality({k \in 1..Len(log) :
                    /\ log[k].chat_id = c
                    /\ TextLess(IsoFormat(t - RateWindow), SqlTimestamp(log[k].timestamp))})

\* DELETE FROM command_log WHERE timestamp < ?, the parameter being
\* (datetime.now() - timedelta(seconds=300)).isoformat().
cleanup_command_log(log, t) ==
    SelectSeq(log, LAMBDA r : ~TextLess(SqlTimestamp(r.timestamp),
                                        IsoFormat(t - CommandLogAge)))

\* IXBRBot._check_rate_limit: whether the command is allowed, and the log
\* afterwards; only an allowed command is logged.
_check_rate_limit(log, c, command, t) ==
    IF get_command_count(log, c, t) >= rate_limit_commands
    THEN [allowed |-> FALSE, log |-> log]
    ELSE [allowed |-> TRUE, log |-> log_command(log, c, command, t)]

\* ------------------------------------------------------- the pending queue
HasPending(q, g, c) == \E k \in 1..Len(q) : q[k].message_guid = g /\ q[k].chat_id = c

\* INSERT OR REPLACE: a second defer takes the place of the first.
AddPendingReplacing(q, c, g, text, title, t) ==
    Append(SelectSeq(q, LAMBDA p : ~(p.message_guid = g /\ p.chat_id = c)),
           [chat_id |-> c, message_guid |-> g, message_text |-> text,
            event_title |-> title, created_at |-> t])

\* INSERT OR IGNORE under UNIQUE(message_guid, chat_id).
add_pending_notification(q, c, g, text, title, t) ==
    IF HasPending(q, g, c)
    THEN q
    ELSE Append(q, [chat_id |-> c, message_guid |-> g, message_text |-> text,
                    event_title |-> title, created_at |-> t])

\* SELECT ... WHERE chat_id = ? ORDER BY created_at ASC (rows are appended in
\* created_at order, so rowid order is created_at order).
get_pending_notifications(q, c) == SelectSeq(q, LAMBDA p : p.chat_id = c)

\* A DELETE without the WHERE clause.
ClearAllPending(q, c) == <<>>

\* DELETE FROM pending_notifications WHERE chat_id = ?
clear_pending_notifications(q, c) == SelectSeq(q, LAMBDA p : p.chat_id # c)

\* The summary of a batch: the header with len(pending), one line for each of
\* pending[:5] (title, or "Evento" when it is empty), and the trailer
\* "... e mais {len(pending) - 5} eventos." when len(pending) > 5.
SummaryTitle(title) == IF title = "" THEN "Evento" ELSE title

\* A summary that lists every title (no [:5] slice, no trailer).
SummaryWithoutCap(pending) ==
    [count  |-> Len(pending),
     titles |-> [k \in 1..Len(pending) |-> SummaryTitle(pending[k].event_title)],
     more   |-> <<>>]

SummaryText(pending) ==
    LET n == Len(pending)
        shown == IF n > SummaryLimit THEN SummaryLimit ELSE n
    IN  [count  |-> n,
         titles |-> [k \in 1..shown |-> SummaryTitle(pending[k].event_title)],
         more   |-> IF n > SummaryLimit THEN <<n - SummaryLimit>> ELSE <<>>]

\* What the flush sends: the stored text of a single notification, else the summary.
FlushText(pending) ==
    IF Len(pending) = 1 THEN pending[1].message_text ELSE SummaryText(pending)

\* The "for p in pending: mark_message_sent(..., 0, 'pending_summary', ...)" loop.
RECURSIVE MarkSummary(_, _, _, _)
MarkSummary(rows, batch, c, t) ==
    IF batch = <<>>
    THEN rows
    ELSE MarkSummary(mark_message_sent(rows, Head(batch).message_guid, c, 0,
                                       PendingSummary, Head(batch).event_title, t),
                     Tail(batch), c, t)

\* ---------------------------------------------------- recipient directory
\* UPDATE subscribed_chats SET is_active = 0 WHERE chat_id = ? AND is_active = 1
\* A deactivation that also resets the chat's quiet window.
UnsubscribeClearingWindow(dir, c) ==
    [dir EXCEPT ![c] = IF @.present /\ @.is_active
                       THEN [@ EXCEPT !.is_active = FALSE, !.quiet_hours_start = <<>>,
                                      !.quiet_hours_end = <<>>, !.quiet_hours_tz = "UTC"]
                       ELSE @]

unsubscribe_chat(dir, c) ==
    [dir EXCEPT ![c] = IF @.present /\ @.is_active THEN [@ EXCEPT !.is_active = FALSE] ELSE @]

\* A reactivation that writes a fresh row, losing the stored quiet window.
SubscribeResettingWindow(dir, c) ==
    IF dir[c].present /\ dir[c].is_active
    THEN dir
    ELSE [dir EXCEPT ![c] = [present |-> TRUE, is_active |-> TRUE,
                             quiet_hours_start |-> <<>>, quiet_hours_end |-> <<>>,
                             quiet_hours_tz |-> "UTC"]]

\* The value subscribe_chat returns: False when the row exists and is active.
is_new(dir, c) == ~(dir[c].present /\ dir[c].is_active)

\* The value unsubscribe_chat returns: cursor.rowcount > 0.
was_subscribed(dir, c) == dir[c].present /\ dir[c].is_active

subscribe_chat(dir, c) ==
    IF dir[c].present
    THEN IF dir[c].is_active THEN dir ELSE [dir EXCEPT ![c].is_active = TRUE]
    ELSE [dir EXCEPT ![c] = [present |-> TRUE, is_active |-> TRUE,
                             quiet_hours_start |-> <<>>, quiet_hours_end |-> <<>>,
                             quiet_hours_tz |-> "UTC"]]

set_quiet_hours(dir, c, w) ==
    IF dir[c].present /\ dir[c].is_active
    THEN [dir EXCEPT ![c].quiet_hours_start = w.quiet_hours_start,
                     ![c].quiet_hours_end = w.quiet_hours_end,
                     ![c].quiet_hours_tz = w.quiet_hours_tz]
    ELSE dir

RECURSIVE ActiveFrom(_, _)
ActiveFrom(dir, order) ==
    IF order = <<>>
    THEN <<>>
    ELSE LET c == Head(order)
             rest == ActiveFrom(dir, Tail(order))
         IN  IF dir[c].present /\ dir[c].is_active
             THEN <<[chat_id |-> c, quiet_hours_start |-> dir[c].quiet_hours_start,
                     quiet_hours_end |-> dir[c].quiet_hours_end,
                     quiet_hours_tz |-> dir[c].quiet_hours_tz]>> \o rest
             ELSE rest

\* SELECT ... FROM subscribed_chats WHERE is_active = 1
get_active_chats(dir) == ActiveFrom(dir, ChatOrder)


\* ------------------------------------------------------------ history
NoStep == [step |-> "none", chat_id |-> 0, guid |-> "", backoff |-> <<>>, report |-> <<>>,
           quiet |-> FALSE, outcome |-> "", calls |-> <<>>, db |-> <<>>]

\* A transport call: send_message / edit_message_text, its text and outcome.
Call(op, msgId, ok, text) ==
    [op |-> op, message_id |-> msgId, ok |-> ok, text |-> text, error |-> NoError]

\* A transport call that raised TelegramError err.
FailedCall(op, msgId, text, err) ==
    [op |-> op, message_id |-> msgId, ok |-> FALSE, text |-> text, error |-> err]

\* The history is kept for the guids of Guids only.
Bump(d, g, c) ==
    IF <<g, c>> \in DOMAIN d
    THEN [d EXCEPT ![<<g, c>>] = IF @ < DeliveredCap THEN @ + 1 ELSE @]
    ELSE d

RECURSIVE BumpAll(_, _, _)
BumpAll(d, batch, c) ==
    IF batch = <<>> THEN d ELSE BumpAll(Bump(d, Head(batch).message_guid, c), Tail(batch), c)

Await(a, g, c, v) == IF <<g, c>> \in DOMAIN a THEN [a EXCEPT ![<<g, c>>] = v] ELSE a

BatchGuids(batch) == {batch[k].message_guid : k \in 1..Len(batch)}

\* ------------------------------------------------------------------- Init
\* The rows a chat may hold in subscribed_chats when the bot starts: none, or
\* an active subscription with one of the quiet-window settings.
StoredRows ==
    {NoRow} \cup {[present |-> TRUE, is_active |-> TRUE,
                   quiet_hours_start |-> w.quiet_hours_start,
                   quiet_hours_end |-> w.quiet_hours_end,
                   quiet_hours_tz |-> w.quiet_hours_tz] : w \in Windows}

Init ==
    /\ now = Noon
    /\ feed = [g \in Guids |-> NoEntry]
    /\ subscribed_chats \in [Chats -> StoredRows]
    /\ sent_messages = {}
    /\ pending_notifications = <<>>
    /\ consecutive_failures = 0
    /\ last_successful_fetch = NULL
    /\ pc = "idle"
    /\ cycles = 0
    /\ commands = 0
    /\ command_log = <<>>
    /\ faults = 0
    /\ attempt = 0
    /\ events = <<>>
    /\ active_chats = <<>>
    /\ ei = 1
    /\ ci = 1
    /\ last = NoStep
    /\ delivered = [k \in Guids \X Chats |-> 0]
    /\ summarised = [k \in Guids \X Chats |-> FALSE]
    /\ flushedSingle = [k \in Guids \X Chats |-> FALSE]
    /\ awaiting = [k \in Guids \X Chats |-> FALSE]

\* ------------------------------------------------------------ environment
\* The environment acts only while a cycle is running or still to come: what it
\* does after the last cycle is seen by no step of the program.
Observed == pc # "idle" \/ cycles < MaxCycles

pipelineVars == <<consecutive_failures, last_successful_fetch, pc, cycles, faults, attempt,
                  events, active_chats, ei, ci, flushedSingle>>
storeVars == <<sent_messages, pending_notifications>>

\* The wall clock moves on to its next reading, between two cycles or between
\* the reconcile loop and the flush loop of one cycle.
Tick ==
    /\ Observed
    /\ pc \in {"idle", "flush"}
    /\ ci = 1
    /\ LET next == IF now % MinutesPerDay = Noon
                   THEN Day(now) * MinutesPerDay + LateEvening
                   ELSE (Day(now) + 1) * MinutesPerDay + Noon
       IN  /\ Day(next) <= MaxDay
           /\ now' = next
    /\ last' = NoStep
    /\ UNCHANGED <<feed, subscribed_chats, storeVars, pipelineVars, commands, command_log, delivered, awaiting, summarised>>

\* Upstream publishes a new announcement, dated day 0, 12:00.  A cycle works on the event list it
\* fetched, so a feed change during a cycle acts as one made right after it.
Publish(g, v) ==
    /\ pc = "idle"
    /\ Observed
    /\ feed[g] = NoEntry
    /\ feed' = [feed EXCEPT ![g] = [title |-> v.title, description |-> v.description,
                                    flags |-> v.flags, published |-> Noon, link |-> "L1", broken |-> FALSE, has_id |-> TRUE]]
    /\ last' = NoStep
    /\ UNCHANGED <<now, subscribed_chats, storeVars, pipelineVars, commands, command_log, delivered, awaiting, summarised>>

\* Upstream edits an announcement in place (same guid and date, new content).
EditEntry(g, v) ==
    /\ pc = "idle"
    /\ Observed
    /\ feed[g] # NoEntry
    /\ feed[g].title # v.title
    /\ feed' = [feed EXCEPT ![g] = [title |-> v.title, description |-> v.description,
                                    flags |-> v.flags, published |-> @.published,
                                    link |-> @.link, broken |-> @.broken,
                                    has_id |-> @.has_id]]
    /\ delivered' = [k \in Guids \X Chats |-> IF k[1] = g THEN 0 ELSE delivered[k]]
    /\ awaiting' = [k \in Guids \X Chats |-> IF k[1] = g THEN FALSE ELSE awaiting[k]]
    /\ summarised' = [k \in Guids \X Chats |-> IF k[1] = g THEN FALSE ELSE summarised[k]]
    /\ last' = NoStep
    /\ UNCHANGED <<now, subscribed_chats, storeVars, pipelineVars, commands, command_log>>

\* Chat commands are handled between two cycles.
\* /start (cmd_start): subscribe the chat.
CmdStart(c) ==
    /\ pc = "idle"
    /\ commands < MaxCommands
    /\ Observed
    /\ commands' = commands + 1
    /\ _check_rate_limit(command_log, c, "start", now).allowed
    /\ command_log' = _check_rate_limit(command_log, c, "start", now).log
    /\ subscribed_chats' = subscribe_chat(subscribed_chats, c)
    /\ subscribed_chats' # subscribed_chats
    /\ last' = NoStep
    /\ UNCHANGED <<now, feed, storeVars, pipelineVars, delivered, awaiting, summarised>>

\* /stop (cmd_stop): unsubscribe the chat.
CmdStop(c) ==
    /\ pc = "idle"
    /\ commands < MaxCommands
    /\ Observed
    /\ commands' = commands + 1
    /\ _check_rate_limit(command_log, c, "stop", now).allowed
    /\ command_log' = _check_rate_limit(command_log, c, "stop", now).log
    /\ subscribed_chats' = unsubscribe_chat(subscribed_chats, c)
    /\ subscribed_chats' # subscribed_chats
    /\ last' = NoStep
    /\ UNCHANGED <<now, feed, storeVars, pipelineVars, delivered, awaiting, summarised>>

\* /silencio (cmd_quiet_hours, callback_quiet_hours): store a quiet window.
CmdQuietHours(c, w) ==
    /\ pc = "idle"
    /\ commands < MaxCommands
    /\ Observed
    /\ commands' = commands + 1
    /\ \/ /\ _check_rate_limit(command_log, c, "silencio", now).allowed
          /\ command_log' = _check_rate_limit(command_log, c, "silencio", now).log
       \/ UNCHANGED command_log
    /\ subscribed_chats' = set_quiet_hours(subscribed_chats, c, w)
    /\ subscribed_chats' # subscribed_chats
    /\ last' = NoStep
    /\ UNCHANGED <<now, feed, storeVars, pipelineVars, delivered, awaiting, summarised>>

\* ------------------------------------------------------------ fetch_events
\* The age filter with the cutoff itself excluded.
RECURSIVE FilterStrictlyNewer(_, _)
FilterStrictlyNewer(order, cutoff_date) ==
    IF order = <<>>
    THEN <<>>
    ELSE LET g == Head(order)
             rest == FilterStrictlyNewer(Tail(order), cutoff_date)
         IN  IF feed[g] # NoEntry /\ ~feed[g].broken /\ _parse_entry(g).published > cutoff_date
             THEN <<_parse_entry(g)>> \o rest
             ELSE rest

\* A loop that gives up at the first entry that fails to parse.
RECURSIVE ParseUntilBroken(_, _)
ParseUntilBroken(order, cutoff_date) ==
    IF order = <<>>
    THEN <<>>
    ELSE LET g == Head(order)
         IN  IF feed[g] # NoEntry /\ feed[g].broken
             THEN <<>>
             ELSE IF feed[g] # NoEntry /\ _parse_entry(g).published >= cutoff_date
             THEN <<_parse_entry(g)>> \o ParseUntilBroken(Tail(order), cutoff_date)
             ELSE ParseUntilBroken(Tail(order), cutoff_date)

\* for entry in feed.entries: _parse_entry returns None for an entry that
\* raises while being parsed; an event is kept when published >= cutoff_date.
RECURSIVE ParseAndFilter(_, _)
ParseAndFilter(order, cutoff_date) ==
    IF order = <<>>
    THEN <<>>
    ELSE LET g == Head(order)
             rest == ParseAndFilter(Tail(order), cutoff_date)
         IN  IF feed[g] # NoEntry /\ ~feed[g].broken /\ _parse_entry(g).published >= cutoff_date
             THEN <<_parse_entry(g)>> \o rest
             ELSE rest

FetchedEvents == ParseAndFilter(GuidOrder, now - max_message_age_days * MinutesPerDay)

\* The job queue fires check_rss_updates.
StartCycle ==
    /\ pc = "idle"
    /\ cycles < MaxCycles
    /\ cycles' = cycles + 1
    /\ pc' = "fetch"
    /\ attempt' = 0
    /\ last' = NoStep
    /\ UNCHANGED <<now, feed, subscribed_chats, storeVars, consecutive_failures,
                   last_successful_fetch, commands, command_log, faults, events, active_chats, ei, ci,
                   delivered, awaiting, summarised, flushedSingle>>

\* One attempt of fetch_events succeeds; check_rss_updates then reads the
\* active chats (or returns when there are no events or no chats).
FetchOk ==
    /\ pc = "fetch"
    /\ consecutive_failures' = 0
    /\ last_successful_fetch' = now
    /\ attempt' = 0
    /\ LET evs == FetchedEvents
           chats == get_active_chats(subscribed_chats)
       IN  IF evs = <<>> \/ chats = <<>>
           THEN /\ pc' = "idle"
                /\ events' = <<>>
                /\ active_chats' = <<>>
           ELSE /\ pc' = "reconcile"
                /\ events' = evs
                /\ active_chats' = chats
    /\ ei' = 1
    /\ ci' = 1
    /\ last' = [NoStep EXCEPT !.step = "fetch", !.outcome = "ok"]
    /\ UNCHANGED <<now, feed, subscribed_chats, storeVars, cycles, commands, command_log,
                   faults, delivered, awaiting, summarised, flushedSingle>>

\* wait_time = 4 * (2 ** attempt), slept when attempt < 2.
FixedWait(a) == 4

wait_time(a) == 4 * 2^a

\* A fetch_events that counts every failed attempt as a failure.
FetchFailCountingAttempts ==
    /\ pc = "fetch"
    /\ consecutive_failures' = consecutive_failures + 1
    /\ IF attempt < 2
       THEN /\ attempt' = attempt + 1
            /\ pc' = "fetch"
            /\ last' = [NoStep EXCEPT !.step = "fetch", !.outcome = "retry",
                                       !.backoff = <<wait_time(attempt)>>]
       ELSE /\ attempt' = 0
            /\ pc' = "idle"
            /\ last' = [NoStep EXCEPT !.step = "fetch", !.outcome = "exhausted"]
    /\ UNCHANGED <<now, feed, subscribed_chats, storeVars, last_successful_fetch,
                   cycles, commands, command_log, faults, events, active_chats, ei, ci, delivered,
                   awaiting, summarised, flushedSingle>>

\* One attempt of fetch_events raises RSSFetchError; the third failure ends
\* the cycle with an empty event list.
FetchFail ==
    /\ pc = "fetch"
    /\ IF attempt < 2
       THEN /\ attempt' = attempt + 1
            /\ pc' = "fetch"
            /\ UNCHANGED consecutive_failures
            /\ last' = [NoStep EXCEPT !.step = "fetch", !.outcome = "retry",
                                       !.backoff = <<wait_time(attempt)>>]
       ELSE /\ consecutive_failures' = consecutive_failures + 1
            /\ attempt' = 0
            /\ pc' = "idle"
            /\ last' = [NoStep EXCEPT !.step = "fetch", !.outcome = "exhausted"]
    /\ UNCHANGED <<now, feed, subscribed_chats, storeVars, last_successful_fetch,
                   cycles, commands, command_log, faults, events, active_chats, ei, ci, delivered, awaiting,
                   summarised, flushedSingle>>


\* ---------------------------------------------------- _send_event_to_chats
\* sent_message.message_id: the transport numbers the messages of a chat, and
\* never reuses a number.  The program only stores the number and hands it
\* back to edit_message_text, so the model takes the least number that no
\* row of the chat holds.
RECURSIVE LeastFree(_, _)
LeastFree(used, n) == IF n \in used THEN LeastFree(used, n + 1) ELSE n

NewMessageId(c) ==
    LeastFree({r.telegram_message_id : r \in {x \in sent_messages : x.chat_id = c}}, 1)

\* What a transport call may do: return (NoError) or raise a TelegramError.
TransportResults == {NoError} \cup TelegramErrors

\* Loop control of "for event in events: for chat_info in chats".
AdvanceReconcile ==
    IF ci < Len(active_chats)
    THEN /\ ci' = ci + 1
         /\ UNCHANGED <<ei, pc>>
    ELSE /\ ci' = 1
         /\ IF ei < Len(events)
            THEN /\ ei' = ei + 1
                 /\ UNCHANGED pc
            ELSE /\ ei' = 1
                 /\ pc' = "flush"

Faults(calls) == Cardinality({k \in 1..Len(calls) : ~calls[k].ok})

\* _send_message: send, then mark_message_sent on success, unsubscribe_chat on
\* a permanent error, nothing on any other TelegramError.
_send_message(c, event, content_hash, result, calls, db) ==
    /\ faults' = faults + (IF Faults(calls) > 0 \/ result # NoError THEN 1 ELSE 0)
    /\ faults' <= MaxFaults
    /\ \/ /\ result = NoError
          /\ sent_messages' = mark_message_sent(sent_messages, event.guid, c, NewMessageId(c),
                                                content_hash, event.title, now)
          /\ delivered' = Bump(delivered, event.guid, c)
          /\ awaiting' = Await(awaiting, event.guid, c, FALSE)
          /\ last' = [step |-> "reconcile", chat_id |-> c, guid |-> event.guid,
                      backoff |-> <<>>, report |-> <<>>, quiet |-> FALSE, outcome |-> "send",
                      calls |-> Append(calls, Call("send", NewMessageId(c), TRUE, to_telegram_message(event))),
                      db |-> Append(db, "mark_message_sent")]
          /\ UNCHANGED subscribed_chats
       \/ /\ result # NoError
          /\ IsPermanent(result)
          /\ subscribed_chats' = unsubscribe_chat(subscribed_chats, c)
          /\ last' = [step |-> "reconcile", chat_id |-> c, guid |-> event.guid,
                      backoff |-> <<>>, report |-> <<>>, quiet |-> FALSE, outcome |-> "send",
                      calls |-> Append(calls, FailedCall("send", 0, to_telegram_message(event), result)),
                      db |-> Append(db, "unsubscribe_chat")]
          /\ UNCHANGED <<sent_messages, delivered, awaiting>>
       \/ /\ result # NoError
          /\ ~IsPermanent(result)
          /\ last' = [step |-> "reconcile", chat_id |-> c, guid |-> event.guid,
                      backoff |-> <<>>, report |-> <<>>, quiet |-> FALSE, outcome |-> "send",
                      calls |-> Append(calls, FailedCall("send", 0, to_telegram_message(event), result)),
                      db |-> db]
          /\ awaiting' = Await(awaiting, event.guid, c, TRUE)
          /\ UNCHANGED <<sent_messages, delivered, subscribed_chats>>
    /\ UNCHANGED pending_notifications

\* Quiet hours: the notification is stored for later and the loop continues.
Defer(chat_info, event) ==
    /\ pending_notifications' =
           add_pending_notification(pending_notifications, chat_info.chat_id, event.guid,
                                    to_telegram_message(event), event.title, now)
    /\ last' = [step |-> "reconcile", chat_id |-> chat_info.chat_id, guid |-> event.guid,
                backoff |-> <<>>, report |-> <<>>, quiet |-> TRUE, outcome |-> "defer", calls |-> <<>>,
                db |-> <<"add_pending_notification">>]
    /\ UNCHANGED <<sent_messages, subscribed_chats, delivered, awaiting, faults>>

\* existing["content_hash"] == current_hash: continue.
Skip(c, event) ==
    /\ last' = [step |-> "reconcile", chat_id |-> c, guid |-> event.guid,
                backoff |-> <<>>, report |-> <<>>, quiet |-> FALSE, outcome |-> "skip", calls |-> <<>>,
                db |-> <<"get_sent_message">>]
    /\ UNCHANGED <<storeVars, subscribed_chats, delivered, awaiting, faults>>

\* An edit that succeeds and then falls through to the send (no "continue").
EditWithoutContinue(c, event, current_hash, existing) ==
    /\ sent_messages' =
           mark_message_sent(update_message_record(sent_messages, event.guid, c,
                                                   current_hash, event.title, now),
                             event.guid, c, NewMessageId(c), current_hash, event.title, now)
    /\ delivered' = Bump(delivered, event.guid, c)
    /\ awaiting' = Await(awaiting, event.guid, c, FALSE)
    /\ last' = [step |-> "reconcile", chat_id |-> c, guid |-> event.guid,
                backoff |-> <<>>, report |-> <<>>, quiet |-> FALSE, outcome |-> "edit",
                calls |-> <<Call("edit", existing.telegram_message_id, TRUE, UpdatedText(event)),
                            Call("send", NewMessageId(c), TRUE, to_telegram_message(event))>>,
                db |-> <<"get_sent_message", "update_message_record", "mark_message_sent">>]
    /\ UNCHANGED <<pending_notifications, subscribed_chats, faults>>

\* An edit whose failure ends the pair: no send follows.
EditWithoutResend(c, event, current_hash, existing) ==
    \/ /\ sent_messages' = update_message_record(sent_messages, event.guid, c,
                                                 current_hash, event.title, now)
       /\ last' = [step |-> "reconcile", chat_id |-> c, guid |-> event.guid,
                   backoff |-> <<>>, report |-> <<>>, quiet |-> FALSE, outcome |-> "edit",
                   calls |-> <<Call("edit", existing.telegram_message_id, TRUE, UpdatedText(event))>>,
                   db |-> <<"get_sent_message", "update_message_record">>]
       /\ awaiting' = Await(awaiting, event.guid, c, FALSE)
       /\ UNCHANGED <<pending_notifications, subscribed_chats, delivered, faults>>
    \/ /\ faults < MaxFaults
       /\ faults' = faults + 1
       /\ \E err \in TelegramErrors :
              last' = [step |-> "reconcile", chat_id |-> c, guid |-> event.guid,
                       backoff |-> <<>>, report |-> <<>>, quiet |-> FALSE, outcome |-> "edit",
                       calls |-> <<FailedCall("edit", existing.telegram_message_id,
                                              UpdatedText(event), err)>>,
                       db |-> <<"get_sent_message">>]
       /\ UNCHANGED <<storeVars, subscribed_chats, delivered, awaiting>>

\* Content changed and the row holds a message id: edit_message_text, then
\* update_message_record and continue; on TelegramError fall through to the send.
EditOrResend(c, event, current_hash, existing) ==
    \/ /\ sent_messages' = update_message_record(sent_messages, event.guid, c,
                                                 current_hash, event.title, now)
       /\ last' = [step |-> "reconcile", chat_id |-> c, guid |-> event.guid,
                   backoff |-> <<>>, report |-> <<>>, quiet |-> FALSE, outcome |-> "edit",
                   calls |-> <<Call("edit", existing.telegram_message_id, TRUE, UpdatedText(event))>>,
                   db |-> <<"get_sent_message", "update_message_record">>]
       /\ awaiting' = Await(awaiting, event.guid, c, FALSE)
       /\ UNCHANGED <<pending_notifications, subscribed_chats, delivered, faults>>
    \/ \E err \in TelegramErrors, result \in TransportResults :
           _send_message(c, event, current_hash, result,
                         <<FailedCall("edit", existing.telegram_message_id,
                                      UpdatedText(event), err)>>,
                         <<"get_sent_message">>)

\* The body of the loop of _send_event_to_chats for one (event, chat_info).
ReconcilePair ==
    /\ pc = "reconcile"
    /\ LET event == events[ei]
           chat_info == active_chats[ci]
           c == chat_info.chat_id
           current_hash == get_content_hash(event)
           existing == get_sent_message(sent_messages, event.guid, c)
       IN  IF _is_quiet_hours(chat_info)
           THEN Defer(chat_info, event)
           ELSE IF existing # NoRecord /\ existing.content_hash = current_hash
           THEN Skip(c, event)
           ELSE IF existing # NoRecord /\ existing.telegram_message_id \notin {0, NULL}
           THEN EditOrResend(c, event, current_hash, existing)
           ELSE \E result \in TransportResults :
                    _send_message(c, event, current_hash, result, <<>>, <<"get_sent_message">>)
    /\ AdvanceReconcile
    /\ UNCHANGED <<now, feed, consecutive_failures, last_successful_fetch, attempt,
                   cycles, commands, command_log, events, active_chats, summarised, flushedSingle>>

\* ------------------------------------------- _process_pending_notifications
AdvanceFlush ==
    IF ci < Len(active_chats)
    THEN /\ ci' = ci + 1
         /\ UNCHANGED pc
    ELSE /\ ci' = 1
         /\ pc' = "cleanup"

\* A flush that classifies its transport error as _send_message does and
\* unsubscribes the chat on a permanent one.
FlushClassifying ==
    /\ pc = "flush"
    /\ LET chat_info == active_chats[ci]
           c == chat_info.chat_id
           pending == get_pending_notifications(pending_notifications, c)
           step(outcome, calls, db) ==
               [step |-> "flush", chat_id |-> c, guid |-> "", backoff |-> <<>>, report |-> <<>>, quiet |-> outcome = "quiet",
                outcome |-> outcome, calls |-> calls, db |-> db]
       IN  IF _is_quiet_hours(chat_info)
           THEN /\ last' = step("quiet", <<>>, <<>>)
                /\ UNCHANGED <<storeVars, delivered, awaiting, summarised, flushedSingle, faults>>
           ELSE IF pending = <<>>
           THEN /\ last' = step("empty", <<>>, <<"get_pending_notifications">>)
                /\ UNCHANGED <<storeVars, delivered, awaiting, summarised, flushedSingle, faults>>
           ELSE \/ \* send_message raises TelegramError: the queue is kept
                   /\ faults < MaxFaults
                   /\ faults' = faults + 1
                   /\ \E err \in TelegramErrors :
                          last' = step("failed",
                                       <<FailedCall("send", 0, FlushText(pending), err)>>,
                                       <<"get_pending_notifications">>)
                   /\ UNCHANGED <<storeVars, delivered, awaiting, summarised, flushedSingle>>
                \/ \* send_message succeeds
                   /\ UNCHANGED faults
                   /\ IF Len(pending) = 1
                      THEN /\ sent_messages' =
                                  mark_message_sent(sent_messages, pending[1].message_guid, c,
                                                    NewMessageId(c), PendingDelivered,
                                                    pending[1].event_title, now)
                           /\ last' = [step("single", <<Call("send", NewMessageId(c), TRUE, FlushText(pending))>>,
                                            <<"get_pending_notifications", "mark_message_sent",
                                              "clear_pending_notifications">>)
                                       EXCEPT !.guid = pending[1].message_guid]
                           /\ flushedSingle' =
                                  [k \in Guids \X Chats |->
                                      IF k = <<pending[1].message_guid, c>>
                                      THEN TRUE ELSE flushedSingle[k]]
                           /\ UNCHANGED summarised
                      ELSE /\ sent_messages' = MarkSummary(sent_messages, pending, c, now)
                           /\ last' = step("summary", <<Call("send", NewMessageId(c), TRUE, FlushText(pending))>>,
                                           <<"get_pending_notifications", "mark_message_sent",
                                             "clear_pending_notifications">>)
                           /\ summarised' = [k \in Guids \X Chats |->
                                                IF k[2] = c /\ k[1] \in BatchGuids(pending)
                                                THEN TRUE ELSE summarised[k]]
                           /\ UNCHANGED flushedSingle
                   /\ delivered' = BumpAll(delivered, pending, c)
                   /\ awaiting' = [k \in Guids \X Chats |->
                                      IF k[2] = c /\ k[1] \in BatchGuids(pending)
                                      THEN FALSE ELSE awaiting[k]]
                   /\ pending_notifications' =
                          clear_pending_notifications(pending_notifications, c)
    /\ subscribed_chats' =
           IF last'.outcome = "failed" /\ IsPermanent(last'.calls[1].error)
           THEN unsubscribe_chat(subscribed_chats, last'.chat_id)
           ELSE subscribed_chats
    /\ AdvanceFlush
    /\ UNCHANGED <<now, feed, consecutive_failures, last_successful_fetch,
                   cycles, commands, command_log, attempt, events, active_chats, ei>>

\* The body of the loop of _process_pending_notifications for one chat_info.
FlushChat ==
    /\ pc = "flush"
    /\ LET chat_info == active_chats[ci]
           c == chat_info.chat_id
           pending == get_pending_notifications(pending_notifications, c)
           step(outcome, calls, db) ==
               [step |-> "flush", chat_id |-> c, guid |-> "", backoff |-> <<>>, report |-> <<>>, quiet |-> outcome = "quiet",
                outcome |-> outcome, calls |-> calls, db |-> db]
       IN  IF _is_quiet_hours(chat_info)
           THEN /\ last' = step("quiet", <<>>, <<>>)
                /\ UNCHANGED <<storeVars, delivered, awaiting, summarised, flushedSingle, faults>>
           ELSE IF pending = <<>>
           THEN /\ last' = step("empty", <<>>, <<"get_pending_notifications">>)
                /\ UNCHANGED <<storeVars, delivered, awaiting, summarised, flushedSingle, faults>>
           ELSE \/ \* send_message raises TelegramError: the queue is kept
                   /\ faults < MaxFaults
                   /\ faults' = faults + 1
                   /\ \E err \in TelegramErrors :
                          last' = step("failed",
                                       <<FailedCall("send", 0, FlushText(pending), err)>>,
                                       <<"get_pending_notifications">>)
                   /\ UNCHANGED <<storeVars, delivered, awaiting, summarised, flushedSingle>>
                \/ \* send_message succeeds
                   /\ UNCHANGED faults
                   /\ IF Len(pending) = 1
                      THEN /\ sent_messages' =
                                  mark_message_sent(sent_messages, pending[1].message_guid, c,
                                                    NewMessageId(c), PendingDelivered,
                                                    pending[1].event_title, now)
                           /\ last' = [step("single", <<Call("send", NewMessageId(c), TRUE, FlushText(pending))>>,
                                            <<"get_pending_notifications", "mark_message_sent",
                                              "clear_pending_notifications">>)
                                       EXCEPT !.guid = pending[1].message_guid]
                           /\ flushedSingle' =
                                  [k \in Guids \X Chats |->
                                      IF k = <<pending[1].message_guid, c>>
                                      THEN TRUE ELSE flushedSingle[k]]
                           /\ UNCHANGED summarised
                      ELSE /\ sent_messages' = MarkSummary(sent_messages, pending, c, now)
                           /\ last' = step("summary", <<Call("send", NewMessageId(c), TRUE, FlushText(pending))>>,
                                           <<"get_pending_notifications", "mark_message_sent",
                                             "clear_pending_notifications">>)
                           /\ summarised' = [k \in Guids \X Chats |->
                                                IF k[2] = c /\ k[1] \in BatchGuids(pending)
                                                THEN TRUE ELSE summarised[k]]
                           /\ UNCHANGED flushedSingle
                   /\ delivered' = BumpAll(delivered, pending, c)
                   /\ awaiting' = [k \in Guids \X Chats |->
                                      IF k[2] = c /\ k[1] \in BatchGuids(pending)
                                      THEN FALSE ELSE awaiting[k]]
                   /\ pending_notifications' =
                          clear_pending_notifications(pending_notifications, c)
    /\ AdvanceFlush
    /\ UNCHANGED <<now, feed, subscribed_chats, consecutive_failures, last_successful_fetch,
                   cycles, commands, command_log, attempt, events, active_chats, ei>>

\* ------------------------------------------------- retention sweep, return
Cleanup ==
    /\ pc = "cleanup"
    /\ sent_messages' = cleanup_old_messages(sent_messages, now)
    /\ command_log' = cleanup_command_log(command_log, now)
    /\ pc' = "idle"
    /\ events' = <<>>
    /\ active_chats' = <<>>
    /\ last' = [NoStep EXCEPT !.step = "cleanup"]
    /\ UNCHANGED <<now, feed, subscribed_chats, pending_notifications,
                   consecutive_failures, last_successful_fetch, cycles, commands, faults,
                   attempt, ei, ci, delivered, awaiting, summarised, flushedSingle>>

\* ------------------------------------------------------------------- Next
Next ==
    \/ Tick
    \/ \E g \in Guids, v \in EntryVersions : Publish(g, v)
    \/ \E g \in Guids, v \in EntryVersions : EditEntry(g, v)
    \/ \E c \in Chats : CmdStart(c)
    \/ \E c \in Chats : CmdStop(c)
    \/ \E c \in Chats, w \in Windows : CmdQuietHours(c, w)
    \/ StartCycle
    \/ FetchOk
    \/ FetchFail
    \/ ReconcilePair
    \/ FlushChat
    \/ Cleanup

Spec == Init /\ [][Next]_vars


\* ------------------------------------------- the flush of a large backlog
\* A cycle that has just finished its reconcile loop while the pending queue
\* holds up to MaxBatch notifications, queued during the night of day 0
\* (00:01, 00:02, ...) for the two chats in any interleaving.
BatchOrder == <<"g1", "g2", "g3", "g4", "g5", "g6", "g7", "g8", "g9">>
BatchTitles == <<"A", "B", "C", "D", "E", "F", "G", "H", "I">>

BatchEvent(k) ==
    [guid |-> BatchOrder[k], title |-> BatchTitles[k], description |-> "d1",
     published |-> Noon, link |-> "L1", event_type |-> "incident"]

BatchRow(k, c) ==
    [chat_id |-> c, message_guid |-> BatchOrder[k],
     message_text |-> to_telegram_message(BatchEvent(k)),
     event_title |-> BatchTitles[k], created_at |-> k]

InitFlush ==
    /\ now \in ClockReadings
    /\ feed = [g \in Guids |-> NoEntry]
    /\ subscribed_chats \in [Chats -> StoredRows \ {NoRow}]
    /\ sent_messages = {}
    /\ \E n \in 1..MaxBatch : \E owner \in [1..n -> Chats] :
           /\ pending_notifications = [k \in 1..n |-> BatchRow(k, owner[k])]
           /\ events = [k \in 1..n |-> BatchEvent(k)]
    /\ consecutive_failures = 0
    /\ last_successful_fetch = now
    /\ pc = "flush"
    /\ cycles = MaxCycles
    /\ commands = 0
    /\ command_log = <<>>
    /\ faults = 0
    /\ attempt = 0
    /\ active_chats = get_active_chats(subscribed_chats)
    /\ ei = 1
    /\ ci = 1
    /\ last = NoStep
    /\ delivered = [k \in Guids \X Chats |-> 0]
    /\ summarised = [k \in Guids \X Chats |-> FALSE]
    /\ flushedSingle = [k \in Guids \X Chats |-> FALSE]
    /\ awaiting = [k \in Guids \X Chats |-> FALSE]

NextFlush ==
    \/ FlushChat
    \/ Cleanup

SpecFlush == InitFlush /\ [][NextFlush]_vars

\* ------------------------------------------- cycles over an edited entry
\* The bot at a moment when upstream has just edited announcement g1 (from
\* EntryV1 to EntryV2): each subscribed chat may already hold the message
\* of the first rendering.  The feed and the subscriptions then stay as they
\* are while the cycles run.
SentV1(c) ==
    NewRecord("g1", c, 1,
              get_content_hash([title |-> EntryV1.title, description |-> EntryV1.description,
                                event_type |-> _classify_event(EntryV1.flags)]),
              EntryV1.title, Noon)

InitRetry ==
    /\ now = Noon
    /\ feed = [g \in Guids |->
                  IF g = "g1"
                  THEN [title |-> EntryV2.title, description |-> EntryV2.description,
                        flags |-> EntryV2.flags, published |-> Noon, link |-> "L1", broken |-> FALSE, has_id |-> TRUE]
                  ELSE NoEntry]
    /\ subscribed_chats \in [Chats -> StoredRows]
    /\ \E holders \in SUBSET {c \in Chats : subscribed_chats[c].present} :
           sent_messages = {SentV1(c) : c \in holders}
    /\ pending_notifications = <<>>
    /\ consecutive_failures = 0
    /\ last_successful_fetch = Noon
    /\ pc = "idle"
    /\ cycles = 0
    /\ commands = 0
    /\ command_log = <<>>
    /\ faults = 0
    /\ attempt = 0
    /\ events = <<>>
    /\ active_chats = <<>>
    /\ ei = 1
    /\ ci = 1
    /\ last = NoStep
    /\ delivered = [k \in Guids \X Chats |-> 0]
    /\ summarised = [k \in Guids \X Chats |-> FALSE]
    /\ flushedSingle = [k \in Guids \X Chats |-> FALSE]
    /\ awaiting = [k \in Guids \X Chats |-> FALSE]

NextRetry ==
    \/ Tick
    \/ StartCycle
    \/ FetchOk
    \/ FetchFail
    \/ ReconcilePair
    \/ FlushChat
    \/ Cleanup

SpecRetry == InitRetry /\ [][NextRetry]_vars

\* --------------------------------------------- the quiet test on its inputs
\* A flush for one chat that holds one pending notification, with the stored
\* window (either bound possibly missing), its timezone and the clock drawn
\* from values on, next to and away from the bounds.
WindowTimes == {<<>>, <<0, 0>>, <<7, 0>>, <<12, 0>>, <<22, 0>>, <<23, 59>>}
WindowZones == {"UTC", "BRT"}
QuietClock == {0, 1, 419, 420, 421, 719, 720, 721, 1319, 1320, 1321, 1410, 1438, 1439}

InitQuiet ==
    /\ now \in QuietClock
    /\ feed = [g \in Guids |-> NoEntry]
    /\ \E qs \in WindowTimes, qe \in WindowTimes, tz \in WindowZones :
           subscribed_chats =
               [c \in Chats |->
                   IF c = 1
                   THEN [present |-> TRUE, is_active |-> TRUE, quiet_hours_start |-> qs,
                         quiet_hours_end |-> qe, quiet_hours_tz |-> tz]
                   ELSE NoRow]
    /\ sent_messages = {}
    /\ pending_notifications = <<BatchRow(1, 1)>>
    /\ events = <<BatchEvent(1)>>
    /\ consecutive_failures = 0
    /\ last_successful_fetch = now
    /\ pc = "flush"
    /\ cycles = MaxCycles
    /\ commands = 0
    /\ command_log = <<>>
    /\ faults = 0
    /\ attempt = 0
    /\ active_chats = get_active_chats(subscribed_chats)
    /\ ei = 1
    /\ ci = 1
    /\ last = NoStep
    /\ delivered = [k \in Guids \X Chats |-> 0]
    /\ summarised = [k \in Guids \X Chats |-> FALSE]
    /\ flushedSingle = [k \in Guids \X Chats |-> FALSE]
    /\ awaiting = [k \in Guids \X Chats |-> FALSE]

NextQuiet ==
    \/ FlushChat
    \/ Cleanup

SpecQuiet == InitQuiet /\ [][NextQuiet]_vars

\* ------------------------------------------------- classification inputs
\* The three keyword classes _classify_event looks for in the lower-cased
\* title + " " + description.
KeywordClasses == {"resolved", "maintenance", "incident"}

\* A feed whose two entries carry any combination of keyword classes, polled
\* for one subscribed chat without a quiet window.
InitClassify ==
    /\ now = Noon
    /\ \E f1 \in SUBSET KeywordClasses, f2 \in SUBSET KeywordClasses :
           feed = [g \in Guids |->
                      [title |-> IF g = "g1" THEN "T1" ELSE "T2", description |-> "d1",
                       flags |-> IF g = "g1" THEN f1 ELSE f2, published |-> Noon,
                       link |-> "L1", broken |-> FALSE, has_id |-> TRUE]]
    /\ subscribed_chats =
           [c \in Chats |->
               IF c = 1
               THEN [present |-> TRUE, is_active |-> TRUE, quiet_hours_start |-> <<>>,
                     quiet_hours_end |-> <<>>, quiet_hours_tz |-> "UTC"]
               ELSE NoRow]
    /\ sent_messages = {}
    /\ pending_notifications = <<>>
    /\ consecutive_failures = 0
    /\ last_successful_fetch = NULL
    /\ pc = "idle"
    /\ cycles = 0
    /\ commands = 0
    /\ command_log = <<>>
    /\ faults = 0
    /\ attempt = 0
    /\ events = <<>>
    /\ active_chats = <<>>
    /\ ei = 1
    /\ ci = 1
    /\ last = NoStep
    /\ delivered = [k \in Guids \X Chats |-> 0]
    /\ summarised = [k \in Guids \X Chats |-> FALSE]
    /\ flushedSingle = [k \in Guids \X Chats |-> FALSE]
    /\ awaiting = [k \in Guids \X Chats |-> FALSE]

SpecClassify == InitClassify /\ [][NextRetry]_vars

\* ------------------------------------------------ metadata-only changes
\* Upstream re-dates an announcement and changes its link; title and
\* description stay as they are.
TouchEntry(g) ==
    /\ pc = "idle"
    /\ Observed
    /\ feed[g] # NoEntry
    /\ feed[g].link = "L1"
    /\ feed' = [feed EXCEPT ![g] = [@ EXCEPT !.published = now, !.link = "L2"]]
    /\ last' = NoStep
    /\ UNCHANGED <<now, subscribed_chats, storeVars, pipelineVars, commands, command_log, delivered, awaiting, summarised>>

\* Upstream re-issues an announcement under another guid; nothing else of the
\* entry changes.
ReissueEntry(g, h) ==
    /\ pc = "idle"
    /\ Observed
    /\ feed[g] # NoEntry
    /\ feed[h] = NoEntry
    /\ feed' = [feed EXCEPT ![g] = NoEntry, ![h] = feed[g]]
    /\ last' = NoStep
    /\ UNCHANGED <<now, subscribed_chats, storeVars, pipelineVars, commands, command_log, delivered, awaiting, summarised>>

InitMeta ==
    /\ now = Noon
    /\ feed = [g \in Guids |->
                  IF g = "g1"
                  THEN [title |-> EntryV1.title, description |-> EntryV1.description,
                        flags |-> EntryV1.flags, published |-> Noon, link |-> "L1", broken |-> FALSE, has_id |-> TRUE]
                  ELSE NoEntry]
    /\ subscribed_chats \in [Chats -> StoredRows]
    /\ sent_messages = {}
    /\ pending_notifications = <<>>
    /\ consecutive_failures = 0
    /\ last_successful_fetch = NULL
    /\ pc = "idle"
    /\ cycles = 0
    /\ commands = 0
    /\ command_log = <<>>
    /\ faults = 0
    /\ attempt = 0
    /\ events = <<>>
    /\ active_chats = <<>>
    /\ ei = 1
    /\ ci = 1
    /\ last = NoStep
    /\ delivered = [k \in Guids \X Chats |-> 0]
    /\ summarised = [k \in Guids \X Chats |-> FALSE]
    /\ flushedSingle = [k \in Guids \X Chats |-> FALSE]
    /\ awaiting = [k \in Guids \X Chats |-> FALSE]

NextMeta ==
    \/ Tick
    \/ \E g \in Guids : TouchEntry(g)
    \/ \E g \in Guids, h \in Guids : ReissueEntry(g, h)
    \/ StartCycle
    \/ FetchOk
    \/ FetchFail
    \/ ReconcilePair
    \/ FlushChat
    \/ Cleanup

SpecMeta == InitMeta /\ [][NextMeta]_vars

\* ------------------------------------------------------- store failures
\* A call of the Database raises (aiosqlite / sqlite3 error).  Neither
\* _send_event_to_chats, _send_message nor _process_pending_notifications
\* catches anything but TelegramError, so the exception reaches the
\* "except Exception" of check_rss_updates, which logs it and returns: the
\* rest of the cycle is not run.  In last.db the call that raised is the last.
AbortCycle ==
    /\ pc' = "idle"
    /\ events' = <<>>
    /\ active_chats' = <<>>
    /\ ei' = 1
    /\ ci' = 1

\* _send_event_to_chats for one (event, chat_info) in which a Database call raises.
ReconcileStoreError ==
    /\ pc = "reconcile"
    /\ faults < MaxFaults
    /\ faults' = faults + 1
    /\ LET event == events[ei]
           chat_info == active_chats[ci]
           c == chat_info.chat_id
           current_hash == get_content_hash(event)
           existing == get_sent_message(sent_messages, event.guid, c)
           step(quiet, calls, db) ==
               [step |-> "reconcile", chat_id |-> c, guid |-> event.guid, backoff |-> <<>>, report |-> <<>>,
                quiet |-> quiet, outcome |-> "store_error", calls |-> calls, db |-> db]
           \* send_message returns, then mark_message_sent raises
           SendThenRaise(calls) ==
               /\ last' = step(FALSE,
                               Append(calls, Call("send", NewMessageId(c), TRUE,
                                                  to_telegram_message(event))),
                               <<"get_sent_message", "mark_message_sent">>)
               /\ delivered' = Bump(delivered, event.guid, c)
               /\ awaiting' = Await(awaiting, event.guid, c, FALSE)
       IN  IF _is_quiet_hours(chat_info)
           THEN \* add_pending_notification raises
                /\ last' = step(TRUE, <<>>, <<"add_pending_notification">>)
                /\ UNCHANGED <<delivered, awaiting>>
           ELSE \/ \* get_sent_message raises
                   /\ last' = step(FALSE, <<>>, <<"get_sent_message">>)
                   /\ UNCHANGED <<delivered, awaiting>>
                \/ \* the edit branch
                   /\ existing # NoRecord
                   /\ existing.content_hash # current_hash
                   /\ existing.telegram_message_id \notin {0, NULL}
                   /\ \/ \* edit_message_text returns, update_message_record raises
                         /\ last' = step(FALSE,
                                         <<Call("edit", existing.telegram_message_id, TRUE,
                                                UpdatedText(event))>>,
                                         <<"get_sent_message", "update_message_record">>)
                         /\ UNCHANGED <<delivered, awaiting>>
                      \/ \* edit_message_text raises TelegramError, the send follows
                         \E err \in TelegramErrors :
                             SendThenRaise(<<FailedCall("edit", existing.telegram_message_id,
                                                        UpdatedText(event), err)>>)
                \/ \* the send branch
                   /\ existing = NoRecord
                        \/ /\ existing.content_hash # current_hash
                           /\ existing.telegram_message_id \in {0, NULL}
                   /\ \/ SendThenRaise(<<>>)
                      \/ \* send_message raises a permanent error, unsubscribe_chat raises
                         /\ \E err \in TelegramErrors :
                                /\ IsPermanent(err)
                                /\ last' = step(FALSE,
                                                <<FailedCall("send", 0,
                                                             to_telegram_message(event), err)>>,
                                                <<"get_sent_message", "unsubscribe_chat">>)
                         /\ UNCHANGED <<delivered, awaiting>>
    /\ AbortCycle
    /\ UNCHANGED <<now, feed, subscribed_chats, storeVars, consecutive_failures,
                   last_successful_fetch, attempt, cycles, commands, command_log, summarised,
                   flushedSingle>>

\* _process_pending_notifications for one chat_info in which a Database call raises.
FlushStoreError ==
    /\ pc = "flush"
    /\ faults < MaxFaults
    /\ faults' = faults + 1
    /\ LET chat_info == active_chats[ci]
           c == chat_info.chat_id
           pending == get_pending_notifications(pending_notifications, c)
           step(guid, calls, db) ==
               [step |-> "flush", chat_id |-> c, guid |-> guid, backoff |-> <<>>, report |-> <<>>,
                quiet |-> FALSE, outcome |-> "store_error", calls |-> calls, db |-> db]
           sent == <<Call("send", NewMessageId(c), TRUE, FlushText(pending))>>
           Covered == [k \in Guids \X Chats |-> k[2] = c /\ k[1] \in BatchGuids(pending)]
       IN  /\ ~_is_quiet_hours(chat_info)
           /\ \/ \* get_pending_notifications raises
                 /\ last' = step("", <<>>, <<"get_pending_notifications">>)
                 /\ UNCHANGED <<sent_messages, delivered, awaiting, summarised, flushedSingle>>
              \/ \* one notification: send_message returns, mark_message_sent raises
                 /\ Len(pending) = 1
                 /\ last' = step(pending[1].message_guid, sent,
                                 <<"get_pending_notifications", "mark_message_sent">>)
                 /\ flushedSingle' = [k \in Guids \X Chats |-> Covered[k] \/ flushedSingle[k]]
                 /\ delivered' = BumpAll(delivered, pending, c)
                 /\ awaiting' = [k \in Guids \X Chats |-> ~Covered[k] /\ awaiting[k]]
                 /\ UNCHANGED <<sent_messages, summarised>>
              \/ \* a summary: send_message returns, the j-th mark_message_sent raises
                 /\ Len(pending) > 1
                 /\ \E j \in 1..Len(pending) :
                        sent_messages' = MarkSummary(sent_messages, SubSeq(pending, 1, j - 1),
                                                     c, now)
                 /\ last' = step("", sent, <<"get_pending_notifications", "mark_message_sent">>)
                 /\ summarised' = [k \in Guids \X Chats |-> Covered[k] \/ summarised[k]]
                 /\ delivered' = BumpAll(delivered, pending, c)
                 /\ awaiting' = [k \in Guids \X Chats |-> ~Covered[k] /\ awaiting[k]]
                 /\ UNCHANGED flushedSingle
              \/ \* everything is sent and marked, clear_pending_notifications raises
                 /\ pending # <<>>
                 /\ sent_messages' =
                        IF Len(pending) = 1
                        THEN mark_message_sent(sent_messages, pending[1].message_guid, c,
                                               NewMessageId(c), PendingDelivered,
                                               pending[1].event_title, now)
                        ELSE MarkSummary(sent_messages, pending, c, now)
                 /\ last' = step(IF Len(pending) = 1 THEN pending[1].message_guid ELSE "", sent,
                                 <<"get_pending_notifications", "mark_message_sent",
                                   "clear_pending_notifications">>)
                 /\ flushedSingle' = [k \in Guids \X Chats |->
                                         (Len(pending) = 1 /\ Covered[k]) \/ flushedSingle[k]]
                 /\ summarised' = [k \in Guids \X Chats |->
                                      (Len(pending) > 1 /\ Covered[k]) \/ summarised[k]]
                 /\ delivered' = BumpAll(delivered, pending, c)
                 /\ awaiting' = [k \in Guids \X Chats |-> ~Covered[k] /\ awaiting[k]]
    /\ AbortCycle
    /\ UNCHANGED <<now, feed, subscribed_chats, pending_notifications, consecutive_failures,
                   last_successful_fetch, attempt, cycles, commands, command_log>>

\* Two announcements are in the feed when the bot starts.
InitStore ==
    /\ now = Noon
    /\ feed = [g \in Guids |->
                  [title |-> EntryV1.title, description |-> EntryV1.description,
                   flags |-> EntryV1.flags, published |-> Noon, link |-> "L1", broken |-> FALSE, has_id |-> TRUE]]
    /\ subscribed_chats \in [Chats -> StoredRows]
    /\ sent_messages = {}
    /\ pending_notifications = <<>>
    /\ consecutive_failures = 0
    /\ last_successful_fetch = NULL
    /\ pc = "idle"
    /\ cycles = 0
    /\ commands = 0
    /\ command_log = <<>>
    /\ faults = 0
    /\ attempt = 0
    /\ events = <<>>
    /\ active_chats = <<>>
    /\ ei = 1
    /\ ci = 1
    /\ last = NoStep
    /\ delivered = [k \in Guids \X Chats |-> 0]
    /\ summarised = [k \in Guids \X Chats |-> FALSE]
    /\ flushedSingle = [k \in Guids \X Chats |-> FALSE]
    /\ awaiting = [k \in Guids \X Chats |-> FALSE]

NextStore ==
    \/ Tick
    \/ StartCycle
    \/ FetchOk
    \/ FetchFail
    \/ ReconcilePair
    \/ ReconcileStoreError
    \/ FlushChat
    \/ FlushStoreError
    \/ Cleanup

SpecStore == InitStore /\ [][NextStore]_vars

\* ------------------------------------------------------ status surface
\* Database.get_stats, as shown by /stats.
get_stats(chats, rows) ==
    [active_chats |-> Cardinality({c \in Chats : chats[c].present /\ chats[c].is_active}),
     total_messages_sent |-> Cardinality(rows),
     failed_deliveries |-> Cardinality({r \in rows : r.delivery_status = "failed"})]

\* The failure counters /stats prints: "Falhas de entrega" and "Falhas consecutivas".
FailureCounters ==
    [failed_deliveries |-> get_stats(subscribed_chats, sent_messages).failed_deliveries,
     consecutive_failures |-> consecutive_failures]

\* ---------------------------------------------------------- status probe
\* What the single request of _fetch_feed_sync may give: a feed, an
\* RSSFetchError, or a feed with bozo set and no entries.
ProbeOutcomes == {"reachable", "unreachable", "parse_error"}

\* A probe that books its failure on the fetcher's counter.
CheckCountingFailures(outcome) ==
    /\ commands < MaxCommands
    /\ commands' = commands + 1
    /\ UNCHANGED command_log
    /\ consecutive_failures' =
           IF outcome = "reachable" THEN consecutive_failures ELSE consecutive_failures + 1
    /\ last' = [NoStep EXCEPT !.step = "probe", !.outcome = outcome,
                              !.calls = <<Call("fetch", 0, outcome # "unreachable", "")>>]
    /\ UNCHANGED <<now, feed, subscribed_chats, storeVars, last_successful_fetch,
                   pc, cycles, faults, attempt, events, active_chats, ei, ci, delivered,
                   awaiting, summarised, flushedSingle>>

\* RSSMonitor.check_feed_status, called by /status and /stats: one
\* synchronous request, every exception turned into result["error"]; the
\* counter and the timestamp are copied into the result and left alone.
check_feed_status(outcome) ==
    /\ commands < MaxCommands
    /\ commands' = commands + 1
    /\ UNCHANGED command_log
    /\ last' = [NoStep EXCEPT !.step = "probe", !.outcome = outcome,
                              !.calls = <<Call("fetch", 0, outcome # "unreachable", "")>>]
    /\ UNCHANGED <<now, feed, subscribed_chats, storeVars, consecutive_failures,
                   last_successful_fetch, pc, cycles, faults, attempt, events, active_chats,
                   ei, ci, delivered, awaiting, summarised, flushedSingle>>

NextProbe ==
    \/ Tick
    \/ StartCycle
    \/ FetchOk
    \/ FetchFail
    \/ ReconcilePair
    \/ FlushChat
    \/ Cleanup
    \/ \E outcome \in ProbeOutcomes : check_feed_status(outcome)

SpecProbe == InitRetry /\ [][NextProbe]_vars

\* ------------------------------------------------------ backup / restore
\* Rows of backup_data["subscribed_chats"].  chat_id 0 stands for a row whose
\* chat_id is missing or falsy; bad marks a row whose INSERT raises (a value
\* sqlite cannot bind, a violated constraint).
BackupRows ==
    [chat_id : {0} \cup Chats, is_active : BOOLEAN, window : {NightWindow}, bad : BOOLEAN]

Backups == UNION {[1..n -> BackupRows] : n \in 0..MaxBackupRows}

\* One iteration of "for chat in chats".
ImportRow(acc, chat, merge) ==
    IF chat.chat_id = 0
    THEN [acc EXCEPT !.errors = @ + 1]
    ELSE IF acc.dir[chat.chat_id].present /\ merge
    THEN [acc EXCEPT !.skipped = @ + 1]
    ELSE IF chat.bad
    THEN [acc EXCEPT !.errors = @ + 1]
    ELSE [acc EXCEPT !.imported = @ + 1,
                     !.dir[chat.chat_id] =
                         [present |-> TRUE, is_active |-> chat.is_active,
                          quiet_hours_start |-> chat.window.quiet_hours_start,
                          quiet_hours_end |-> chat.window.quiet_hours_end,
                          quiet_hours_tz |-> chat.window.quiet_hours_tz]]

RECURSIVE ImportRows(_, _, _)
ImportRows(acc, chats, merge) ==
    IF chats = <<>>
    THEN acc
    ELSE ImportRows(ImportRow(acc, Head(chats), merge), Tail(chats), merge)

\* An import that overwrites rows that exist, whatever the mode.
ImportOverwriting(dir, chats, merge) ==
    LET done == ImportRows([dir |-> dir, imported |-> 0, skipped |-> 0, errors |-> 0],
                           chats, FALSE)
    IN  [dir |-> done.dir, imported |-> done.imported, skipped |-> done.skipped,
         errors |-> done.errors, total_in_backup |-> Len(chats)]

\* Database.import_backup: the directory afterwards and the counts returned.
import_backup(dir, chats, merge) ==
    LET cleared == IF merge THEN dir ELSE [c \in Chats |-> NoRow]
        done == ImportRows([dir |-> cleared, imported |-> 0, skipped |-> 0, errors |-> 0],
                           chats, merge)
    IN  [dir |-> done.dir, imported |-> done.imported, skipped |-> done.skipped,
         errors |-> done.errors, total_in_backup |-> Len(chats)]

\* An administrator sends a backup file (handle_backup_file), between two cycles.
Restore ==
    /\ pc = "idle"
    /\ commands < MaxCommands
    /\ Observed
    /\ commands' = commands + 1
    /\ UNCHANGED command_log
    /\ \E chats \in Backups, merge \in BOOLEAN :
           LET result == import_backup(subscribed_chats, chats, merge)
           IN  /\ subscribed_chats' = result.dir
               /\ last' = [NoStep EXCEPT !.step = "restore",
                                         !.report = <<[backup |-> chats, merge |-> merge,
                                                       imported |-> result.imported,
                                                       skipped |-> result.skipped,
                                                       errors |-> result.errors,
                                                       total_in_backup |-> result.total_in_backup]>>]
    /\ UNCHANGED <<now, feed, storeVars, pipelineVars, delivered, awaiting, summarised>>

NextBackup ==
    \/ Restore
    \/ StartCycle
    \/ FetchOk
    \/ FetchFail
    \/ ReconcilePair
    \/ FlushChat
    \/ Cleanup

SpecBackup == InitMeta /\ [][NextBackup]_vars

\* ------------------------------------------------- repeated deferrals
\* An announcement is in the feed late in the evening; upstream may edit it
\* while the cycles run.
InitDefer ==
    /\ now = LateEvening
    /\ feed = [g \in Guids |->
                  IF g = "g1"
                  THEN [title |-> EntryV1.title, description |-> EntryV1.description,
                        flags |-> EntryV1.flags, published |-> Noon, link |-> "L1", broken |-> FALSE, has_id |-> TRUE]
                  ELSE NoEntry]
    /\ subscribed_chats \in [Chats -> StoredRows]
    /\ sent_messages = {}
    /\ pending_notifications = <<>>
    /\ consecutive_failures = 0
    /\ last_successful_fetch = NULL
    /\ pc = "idle"
    /\ cycles = 0
    /\ commands = 0
    /\ command_log = <<>>
    /\ faults = 0
    /\ attempt = 0
    /\ events = <<>>
    /\ active_chats = <<>>
    /\ ei = 1
    /\ ci = 1
    /\ last = NoStep
    /\ delivered = [k \in Guids \X Chats |-> 0]
    /\ summarised = [k \in Guids \X Chats |-> FALSE]
    /\ flushedSingle = [k \in Guids \X Chats |-> FALSE]
    /\ awaiting = [k \in Guids \X Chats |-> FALSE]

NextDefer ==
    \/ Tick
    \/ \E g \in Guids, v \in EntryVersions : EditEntry(g, v)
    \/ StartCycle
    \/ FetchOk
    \/ FetchFail
    \/ ReconcilePair
    \/ FlushChat
    \/ Cleanup

SpecDefer == InitDefer /\ [][NextDefer]_vars

\* ----------------------------------------------------- ledger lifecycle
\* A record written three days ago for an announcement that has left the feed.
OldRecord(c) ==
    NewRecord("g2", c, 1, get_content_hash([title |-> EntryV1.title,
                                            description |-> EntryV1.description,
                                            event_type |-> _classify_event(EntryV1.flags)]),
              EntryV1.title, Noon - 3 * MinutesPerDay)

\* The ledger after earlier cycles: some chats hold the first rendering of g1
\* (as sent, or as edited once before), some an old record of g2; g1 has been
\* edited upstream since.
InitLedger ==
    /\ now = Noon
    /\ feed = [g \in Guids |->
                  IF g = "g1"
                  THEN [title |-> EntryV2.title, description |-> EntryV2.description,
                        flags |-> EntryV2.flags, published |-> Noon, link |-> "L1", broken |-> FALSE, has_id |-> TRUE]
                  ELSE NoEntry]
    /\ subscribed_chats \in [Chats -> StoredRows]
    /\ \E holders \in SUBSET {c \in Chats : subscribed_chats[c].present},
          old \in SUBSET {c \in Chats : subscribed_chats[c].present},
          edited \in BOOLEAN :
           sent_messages =
               {IF edited THEN [SentV1(c) EXCEPT !.updated_at = Noon] ELSE SentV1(c) :
                    c \in holders}
                   \cup {OldRecord(c) : c \in old}
    /\ pending_notifications = <<>>
    /\ consecutive_failures = 0
    /\ last_successful_fetch = Noon
    /\ pc = "idle"
    /\ cycles = 0
    /\ commands = 0
    /\ command_log = <<>>
    /\ faults = 0
    /\ attempt = 0
    /\ events = <<>>
    /\ active_chats = <<>>
    /\ ei = 1
    /\ ci = 1
    /\ last = NoStep
    /\ delivered = [k \in Guids \X Chats |-> 0]
    /\ summarised = [k \in Guids \X Chats |-> FALSE]
    /\ flushedSingle = [k \in Guids \X Chats |-> FALSE]
    /\ awaiting = [k \in Guids \X Chats |-> FALSE]

NextLedger ==
    \/ Tick
    \/ \E c \in Chats : CmdStop(c)
    \/ StartCycle
    \/ FetchOk
    \/ FetchFail
    \/ ReconcilePair
    \/ FlushChat
    \/ Cleanup

SpecLedger == InitLedger /\ [][NextLedger]_vars

\* ------------------------------------------------------------ timezones
\* Values the quiet_hours_tz column may hold: the five names of TIMEZONES, a
\* name outside the table, and "" for a missing one (NULL).
StoredZones == {"UTC", "BRT", "AMT", "ACT", "FNT", "EST", ""}

\* UTC clock readings: every half hour of day 0.
ZoneClock == {30 * k : k \in 0..47}

\* A flush about to start for one chat with a night or a day window in any
\* stored timezone.
InitZones ==
    /\ now \in ZoneClock
    /\ feed = [g \in Guids |-> NoEntry]
    /\ \E tz \in StoredZones, night \in BOOLEAN :
           subscribed_chats =
               [c \in Chats |->
                   IF c = 1
                   THEN [present |-> TRUE, is_active |-> TRUE,
                         quiet_hours_start |-> IF night THEN <<22, 0>> ELSE <<7, 0>>,
                         quiet_hours_end |-> IF night THEN <<7, 0>> ELSE <<22, 0>>,
                         quiet_hours_tz |-> tz]
                   ELSE NoRow]
    /\ sent_messages = {}
    /\ pending_notifications = <<BatchRow(1, 1)>>
    /\ events = <<BatchEvent(1)>>
    /\ consecutive_failures = 0
    /\ last_successful_fetch = now
    /\ pc = "flush"
    /\ cycles = MaxCycles
    /\ commands = 0
    /\ command_log = <<>>
    /\ faults = 0
    /\ attempt = 0
    /\ active_chats = get_active_chats(subscribed_chats)
    /\ ei = 1
    /\ ci = 1
    /\ last = NoStep
    /\ delivered = [k \in Guids \X Chats |-> 0]
    /\ summarised = [k \in Guids \X Chats |-> FALSE]
    /\ flushedSingle = [k \in Guids \X Chats |-> FALSE]
    /\ awaiting = [k \in Guids \X Chats |-> FALSE]

SpecZones == InitZones /\ [][NextQuiet]_vars

\* ------------------------------------------------------- feed contents
\* Publication dates around the cutoff of a fetch at noon of day 0: none that
\* can be parsed, one minute too old, exactly max_message_age_days old, fresh;
\* and the date exactly max_message_age_days before the late evening of day 0.
FeedDates ==
    {NULL, Noon - max_message_age_days * MinutesPerDay - 1,
     Noon - max_message_age_days * MinutesPerDay, Noon,
     LateEvening - max_message_age_days * MinutesPerDay}

\* Entries the feed may hold for a guid; broken marks an entry on which
\* _parse_entry raises.
FeedEntries(g) ==
    {NoEntry} \cup
    [title : {IF g = "g1" THEN "T1" ELSE "T2"}, description : {"d1"},
     flags : {{"incident"}}, published : FeedDates, link : {"L1"}, broken : BOOLEAN,
     has_id : {TRUE}]

InitFeed ==
    /\ now = Noon
    /\ feed \in [Guids -> UNION {FeedEntries(g) : g \in Guids}]
    /\ \A g \in Guids : feed[g] \in FeedEntries(g)
    /\ subscribed_chats \in [Chats -> StoredRows]
    /\ sent_messages = {}
    /\ pending_notifications = <<>>
    /\ consecutive_failures = 0
    /\ last_successful_fetch = NULL
    /\ pc = "idle"
    /\ cycles = 0
    /\ commands = 0
    /\ command_log = <<>>
    /\ faults = 0
    /\ attempt = 0
    /\ events = <<>>
    /\ active_chats = <<>>
    /\ ei = 1
    /\ ci = 1
    /\ last = NoStep
    /\ delivered = [k \in Guids \X Chats |-> 0]
    /\ summarised = [k \in Guids \X Chats |-> FALSE]
    /\ flushedSingle = [k \in Guids \X Chats |-> FALSE]
    /\ awaiting = [k \in Guids \X Chats |-> FALSE]

SpecFeed == InitFeed /\ [][NextRetry]_vars

\* ------------------------------------------------- entries without an id
\* The renderings of an announcement published without id or guid: two that
\* differ only in the markup of the raw description, and an edited one.
EntryV1Markup == [title |-> "T1", description |-> "<p>d1</p>", flags |-> {"incident"}]
AnonVersions == {EntryV1, EntryV1Markup, EntryV2}

\* Upstream rewrites the title or the raw description of an entry.
RewriteEntry(g, v) ==
    /\ pc = "idle"
    /\ Observed
    /\ feed[g] # NoEntry
    /\ <<feed[g].title, feed[g].description>> # <<v.title, v.description>>
    /\ feed' = [feed EXCEPT ![g] = [@ EXCEPT !.title = v.title,
                                             !.description = v.description,
                                             !.flags = v.flags]]
    /\ last' = NoStep
    /\ UNCHANGED <<now, subscribed_chats, storeVars, pipelineVars, commands, command_log, delivered,
                   awaiting, summarised>>

InitAnon ==
    /\ now = LateEvening
    /\ feed = [g \in Guids |->
                  IF g = "g1"
                  THEN [title |-> EntryV1.title, description |-> EntryV1.description,
                        flags |-> EntryV1.flags, published |-> Noon, link |-> "L1",
                        broken |-> FALSE, has_id |-> FALSE]
                  ELSE NoEntry]
    /\ subscribed_chats \in [Chats -> StoredRows]
    /\ sent_messages = {}
    /\ pending_notifications = <<>>
    /\ consecutive_failures = 0
    /\ last_successful_fetch = NULL
    /\ pc = "idle"
    /\ cycles = 0
    /\ commands = 0
    /\ command_log = <<>>
    /\ faults = 0
    /\ attempt = 0
    /\ events = <<>>
    /\ active_chats = <<>>
    /\ ei = 1
    /\ ci = 1
    /\ last = NoStep
    /\ delivered = [k \in Guids \X Chats |-> 0]
    /\ summarised = [k \in Guids \X Chats |-> FALSE]
    /\ flushedSingle = [k \in Guids \X Chats |-> FALSE]
    /\ awaiting = [k \in Guids \X Chats |-> FALSE]

NextAnon ==
    \/ Tick
    \/ \E v \in AnonVersions : RewriteEntry("g1", v)
    \/ StartCycle
    \/ FetchOk
    \/ FetchFail
    \/ ReconcilePair
    \/ FlushChat
    \/ Cleanup

SpecAnon == InitAnon /\ [][NextAnon]_vars

\* --------------------------------------------- commands during a cycle
\* A command handler runs while check_rss_updates is suspended at an await of
\* its reconcile or flush loop.
\* /stop during the cycle.
StopDuringCycle(c) ==
    /\ pc \in {"reconcile", "flush"}
    /\ commands < MaxCommands
    /\ commands' = commands + 1
    /\ _check_rate_limit(command_log, c, "stop", now).allowed
    /\ command_log' = _check_rate_limit(command_log, c, "stop", now).log
    /\ subscribed_chats' = unsubscribe_chat(subscribed_chats, c)
    /\ subscribed_chats' # subscribed_chats
    /\ last' = NoStep
    /\ UNCHANGED <<now, feed, storeVars, pipelineVars, delivered, awaiting, summarised>>

\* /silencio during the cycle.
QuietHoursDuringCycle(c, w) ==
    /\ pc \in {"reconcile", "flush"}
    /\ commands < MaxCommands
    /\ commands' = commands + 1
    /\ \/ /\ _check_rate_limit(command_log, c, "silencio", now).allowed
          /\ command_log' = _check_rate_limit(command_log, c, "silencio", now).log
       \/ UNCHANGED command_log
    /\ subscribed_chats' = set_quiet_hours(subscribed_chats, c, w)
    /\ subscribed_chats' # subscribed_chats
    /\ last' = NoStep
    /\ UNCHANGED <<now, feed, storeVars, pipelineVars, delivered, awaiting, summarised>>

\* Two announcements in the feed, any stored subscriptions.
InitSnapshot ==
    /\ now = Noon
    /\ feed = [g \in Guids |->
                  IF g = "g1"
                  THEN [title |-> EntryV1.title, description |-> EntryV1.description,
                        flags |-> EntryV1.flags, published |-> Noon, link |-> "L1",
                        broken |-> FALSE, has_id |-> TRUE]
                  ELSE [title |-> EntryV2.title, description |-> EntryV2.description,
                        flags |-> EntryV2.flags, published |-> Noon, link |-> "L1",
                        broken |-> FALSE, has_id |-> TRUE]]
    /\ subscribed_chats \in [Chats -> StoredRows]
    /\ sent_messages = {}
    /\ pending_notifications = <<>>
    /\ consecutive_failures = 0
    /\ last_successful_fetch = NULL
    /\ pc = "idle"
    /\ cycles = 0
    /\ commands = 0
    /\ command_log = <<>>
    /\ faults = 0
    /\ attempt = 0
    /\ events = <<>>
    /\ active_chats = <<>>
    /\ ei = 1
    /\ ci = 1
    /\ last = NoStep
    /\ delivered = [k \in Guids \X Chats |-> 0]
    /\ summarised = [k \in Guids \X Chats |-> FALSE]
    /\ flushedSingle = [k \in Guids \X Chats |-> FALSE]
    /\ awaiting = [k \in Guids \X Chats |-> FALSE]

NextSnapshot ==
    \/ Tick
    \/ \E c \in Chats : StopDuringCycle(c)
    \/ \E c \in Chats, w \in Windows : QuietHoursDuringCycle(c, w)
    \/ StartCycle
    \/ FetchOk
    \/ FetchFail
    \/ ReconcilePair
    \/ FlushChat
    \/ Cleanup

SpecSnapshot == InitSnapshot /\ [][NextSnapshot]_vars

\* ------------------------------------------------ queues of inactive chats
\* A notification deferred the evening before for chat c.
QueuedRow(c) ==
    [message_guid |-> "g1", chat_id |-> c,
     message_text |-> <<"msg", "incident", "T1", "d1", Noon - MinutesPerDay, "L1">>,
     event_title |-> "T1", created_at |-> LateEvening - MinutesPerDay]

\* Late evening; chat 1 unsubscribed after a notification was deferred for it,
\* chat 2 is subscribed with the night window and may have one deferred too.
InitQueue ==
    /\ now = LateEvening
    /\ feed = [g \in Guids |->
                  IF g = "g1"
                  THEN [title |-> EntryV1.title, description |-> EntryV1.description,
                        flags |-> EntryV1.flags, published |-> Noon, link |-> "L1",
                        broken |-> FALSE, has_id |-> TRUE]
                  ELSE NoEntry]
    /\ subscribed_chats =
           [c \in Chats |->
               [present |-> TRUE, is_active |-> c = 2,
                quiet_hours_start |-> NightWindow.quiet_hours_start,
                quiet_hours_end |-> NightWindow.quiet_hours_end,
                quiet_hours_tz |-> NightWindow.quiet_hours_tz]]
    /\ sent_messages = {}
    /\ pending_notifications \in {<<QueuedRow(1)>>, <<QueuedRow(1), QueuedRow(2)>>}
    /\ consecutive_failures = 0
    /\ last_successful_fetch = NULL
    /\ pc = "idle"
    /\ cycles = 0
    /\ commands = 0
    /\ command_log = <<>>
    /\ faults = 0
    /\ attempt = 0
    /\ events = <<>>
    /\ active_chats = <<>>
    /\ ei = 1
    /\ ci = 1
    /\ last = NoStep
    /\ delivered = [k \in Guids \X Chats |-> 0]
    /\ summarised = [k \in Guids \X Chats |-> FALSE]
    /\ flushedSingle = [k \in Guids \X Chats |-> FALSE]
    /\ awaiting = [k \in Guids \X Chats |-> FALSE]

NextQueue ==
    \/ Tick
    \/ \E g \in Guids, v \in EntryVersions : Publish(g, v)
    \/ \E c \in Chats : CmdStart(c)
    \/ \E c \in Chats : CmdStop(c)
    \/ \E c \in Chats : StopDuringCycle(c)
    \/ StartCycle
    \/ FetchOk
    \/ FetchFail
    \/ ReconcilePair
    \/ FlushChat
    \/ Cleanup

SpecQueue == InitQueue /\ [][NextQueue]_vars

\* ------------------------------------------------------ retention sweep
\* The record of g1 as a send at time t wrote it for chat c.
SentAt(c, t) ==
    NewRecord("g1", c, 1, get_content_hash([title |-> EntryV1.title,
                                            description |-> EntryV1.description,
                                            event_type |-> _classify_event(EntryV1.flags)]),
              EntryV1.title, t)

\* Publication date of g1 and the time it was sent, not before that date; an
\* entry without a date may have been sent at any time.
SweepCases ==
    {<<NULL, Noon - 2 * max_message_age_days * MinutesPerDay - 1>>,
     <<NULL, Noon - max_message_age_days * MinutesPerDay>>,
     <<NULL, Noon>>,
     <<Noon - max_message_age_days * MinutesPerDay,
       Noon - max_message_age_days * MinutesPerDay>>,
     <<Noon - max_message_age_days * MinutesPerDay, Noon>>,
     <<Noon, Noon>>}

\* Chats without a quiet window; g1 in the feed and delivered to some of them
\* in an earlier cycle; some hold an old record of g2, which has left the feed.
InitSweep ==
    /\ now = Noon
    /\ subscribed_chats \in [Chats -> {r \in StoredRows : r.quiet_hours_start = <<>>}]
    /\ \E case \in SweepCases,
          holders \in SUBSET {c \in Chats : subscribed_chats[c].present},
          old \in SUBSET {c \in Chats : subscribed_chats[c].present} :
           /\ feed = [g \in Guids |->
                         IF g = "g1"
                         THEN [title |-> EntryV1.title, description |-> EntryV1.description,
                               flags |-> EntryV1.flags, published |-> case[1],
                               link |-> "L1", broken |-> FALSE, has_id |-> TRUE]
                         ELSE NoEntry]
           /\ sent_messages = {SentAt(c, case[2]) : c \in holders}
                                  \cup {OldRecord(c) : c \in old}
           /\ delivered = [k \in Guids \X Chats |->
                              IF k[1] = "g1" /\ k[2] \in holders THEN 1 ELSE 0]
    /\ pending_notifications = <<>>
    /\ consecutive_failures = 0
    /\ last_successful_fetch = NULL
    /\ pc = "idle"
    /\ cycles = 0
    /\ commands = 0
    /\ command_log = <<>>
    /\ faults = 0
    /\ attempt = 0
    /\ events = <<>>
    /\ active_chats = <<>>
    /\ ei = 1
    /\ ci = 1
    /\ last = NoStep
    /\ summarised = [k \in Guids \X Chats |-> FALSE]
    /\ flushedSingle = [k \in Guids \X Chats |-> FALSE]
    /\ awaiting = [k \in Guids \X Chats |-> FALSE]

SpecSweep == InitSweep /\ [][NextRetry]_vars

\* --------------------------------------------------- subscription calls
\* Rows subscribed_chats may hold for a chat: none, or a row that is active or
\* not and carries one of the quiet-window settings.
DirectoryRows ==
    {NoRow} \cup {[present |-> TRUE, is_active |-> a,
                   quiet_hours_start |-> w.quiet_hours_start,
                   quiet_hours_end |-> w.quiet_hours_end,
                   quiet_hours_tz |-> w.quiet_hours_tz] : a \in BOOLEAN, w \in Windows}

\* One call of Database.subscribe_chat; report holds the value it returns.
SubscribeCall(c) ==
    /\ pc = "idle"
    /\ commands < MaxCalls
    /\ commands' = commands + 1
    /\ UNCHANGED command_log
    /\ subscribed_chats' = subscribe_chat(subscribed_chats, c)
    /\ last' = [NoStep EXCEPT !.step = "subscribe", !.chat_id = c,
                              !.report = <<is_new(subscribed_chats, c)>>]
    /\ UNCHANGED <<now, feed, storeVars, pipelineVars, delivered, awaiting, summarised>>

\* One call of Database.unsubscribe_chat; report holds the value it returns.
UnsubscribeCall(c) ==
    /\ pc = "idle"
    /\ commands < MaxCalls
    /\ commands' = commands + 1
    /\ UNCHANGED command_log
    /\ subscribed_chats' = unsubscribe_chat(subscribed_chats, c)
    /\ last' = [NoStep EXCEPT !.step = "unsubscribe", !.chat_id = c,
                              !.report = <<was_subscribed(subscribed_chats, c)>>]
    /\ UNCHANGED <<now, feed, storeVars, pipelineVars, delivered, awaiting, summarised>>

InitSubscriptions ==
    /\ now = Noon
    /\ feed = [g \in Guids |-> NoEntry]
    /\ subscribed_chats \in [Chats -> DirectoryRows]
    /\ sent_messages \in {{}, {SentV1(1)}}
    /\ pending_notifications \in {<<>>, <<QueuedRow(1)>>}
    /\ consecutive_failures = 0
    /\ last_successful_fetch = NULL
    /\ pc = "idle"
    /\ cycles = 0
    /\ commands = 0
    /\ command_log = <<>>
    /\ faults = 0
    /\ attempt = 0
    /\ events = <<>>
    /\ active_chats = <<>>
    /\ ei = 1
    /\ ci = 1
    /\ last = NoStep
    /\ delivered = [k \in Guids \X Chats |-> 0]
    /\ summarised = [k \in Guids \X Chats |-> FALSE]
    /\ flushedSingle = [k \in Guids \X Chats |-> FALSE]
    /\ awaiting = [k \in Guids \X Chats |-> FALSE]

NextSubscriptions ==
    \/ \E c \in Chats : SubscribeCall(c)
    \/ \E c \in Chats : UnsubscribeCall(c)

SpecSubscriptions == InitSubscriptions /\ [][NextSubscriptions]_vars

\* ---------------------------------------------------- command rate limit
\* The clock of the rate limit runs minute by minute across midnight, from
\* 23:58 of day 0.
MaxRateMinutes == 4
RateStart == MinutesPerDay - 2
RateEnd == RateStart + MaxRateMinutes

MinuteTick ==
    /\ now < RateEnd
    /\ now' = now + 1
    /\ last' = NoStep
    /\ UNCHANGED <<feed, subscribed_chats, storeVars, pipelineVars, commands, command_log,
                   delivered, awaiting, summarised>>

\* /help (cmd_help): the rate limit, then a reply.
cmd_help(c) ==
    /\ commands < MaxRateCommands
    /\ commands' = commands + 1
    /\ LET checked == _check_rate_limit(command_log, c, "help", now)
       IN  /\ command_log' = checked.log
           /\ last' = [NoStep EXCEPT !.step = "command", !.chat_id = c,
                                     !.outcome = IF checked.allowed THEN "accepted"
                                                 ELSE "rejected"]
    /\ UNCHANGED <<now, feed, subscribed_chats, storeVars, pipelineVars, delivered,
                   awaiting, summarised>>

\* No command logged yet, two minutes before midnight.
InitRate ==
    /\ now = RateStart
    /\ feed = [g \in Guids |-> NoEntry]
    /\ subscribed_chats = [c \in Chats |-> NoRow]
    /\ sent_messages = {}
    /\ pending_notifications = <<>>
    /\ consecutive_failures = 0
    /\ last_successful_fetch = NULL
    /\ pc = "idle"
    /\ cycles = 0
    /\ commands = 0
    /\ command_log = <<>>
    /\ faults = 0
    /\ attempt = 0
    /\ events = <<>>
    /\ active_chats = <<>>
    /\ ei = 1
    /\ ci = 1
    /\ last = NoStep
    /\ delivered = [k \in Guids \X Chats |-> 0]
    /\ summarised = [k \in Guids \X Chats |-> FALSE]
    /\ flushedSingle = [k \in Guids \X Chats |-> FALSE]
    /\ awaiting = [k \in Guids \X Chats |-> FALSE]

NextRate ==
    \/ MinuteTick
    \/ \E c \in Chats : cmd_help(c)

SpecRate == InitRate /\ [][NextRate]_vars

\* ================================================================== claims
\* What the step about to be taken works on (pc = "reconcile" or "flush").
CurEvent == events[ei]
CurChatInfo == active_chats[ci]
CurChat == CurChatInfo.chat_id
CurQuiet == IsQuietAt(CurChatInfo.quiet_hours_start, CurChatInfo.quiet_hours_end,
                      CurChatInfo.quiet_hours_tz, now)
CurRows == RowsFor(sent_messages, CurEvent.guid, CurChat)

OkCalls(calls) == {k \in 1..Len(calls) : calls[k].ok}
SendCalls(calls) == {k \in 1..Len(calls) : calls[k].op = "send"}
EditCalls(calls) == {k \in 1..Len(calls) : calls[k].op = "edit"}

\* The last step handed (g, c) a message of its own: a send issued by the
\* reconcile loop, or the flush of a single pending notification.
IndividualSend(g, c) ==
    /\ last.guid = g
    /\ last.chat_id = c
    /\ \/ last.step = "reconcile" /\ SendCalls(last.calls) # {}
       \/ last.step = "flush" /\ last.outcome = "single"

\* The last step delivered a new message for (g, c).
NewMessage(g, c) ==
    /\ last.guid = g
    /\ last.chat_id = c
    /\ \/ last.step = "reconcile" /\ SendCalls(last.calls) \cap OkCalls(last.calls) # {}
       \/ last.step = "flush" /\ last.outcome = "single"

\* C1: while an event's content does not change, each (guid, chat) receives
\* at most one delivered message for it (immediate sends and flush messages
\* counted alike).
C1_AtMostOneDelivery == \A k \in Guids \X Chats : delivered[k] <= 1

\* C2: once a summary flush has covered (guid, chat), no later step issues an
\* individual send of that event to that chat while its content is unchanged.
C2_NoResendAfterSummary ==
    \A g \in Guids, c \in Chats : summarised[<<g, c>>] => ~IndividualSend(g, c)

\* C3: a flush of exactly one pending notification leaves a record with the
\* flush message's id and fingerprint "pending_delivered", and afterwards the
\* event is never sent to that chat again as a new message.
C3_SingleFlushIsFinal ==
    [][/\ (last'.step = "flush" /\ last'.outcome = "single") =>
              \E r \in sent_messages' :
                  /\ r.message_guid = last'.guid
                  /\ r.chat_id = last'.chat_id
                  /\ r.telegram_message_id = last'.calls[1].message_id
                  /\ r.telegram_message_id > 0
                  /\ r.content_hash = PendingDelivered
       /\ \A g \in Guids, c \in Chats : flushedSingle[<<g, c>>] => ~NewMessage(g, c)'
      ]_vars

\* C4: the ledger holds at most one record per (guid, chat); a send that
\* succeeds replaces the record of its key (new message id, hash, title,
\* sent_at now, updated_at cleared), and an edit neither adds nor removes a key.
Keys(rows) == {<<r.message_guid, r.chat_id>> : r \in rows}

C4_OneRecordPerKey ==
    [][/\ \A r1 \in sent_messages', r2 \in sent_messages' :
              (r1.message_guid = r2.message_guid /\ r1.chat_id = r2.chat_id) => r1 = r2
       /\ (last'.step = "reconcile" /\ last'.outcome = "edit") =>
              Keys(sent_messages') = Keys(sent_messages)
       /\ (last'.step = "reconcile" /\ last'.outcome = "send"
             /\ OkCalls(last'.calls) # {}) =>
              /\ Keys(sent_messages') = Keys(sent_messages) \cup {<<last'.guid, last'.chat_id>>}
              /\ \A r \in RowsFor(sent_messages', last'.guid, last'.chat_id) :
                     /\ r.telegram_message_id = last'.calls[Len(last'.calls)].message_id
                     /\ r.content_hash = get_content_hash(CurEvent)
                     /\ r.message_title = CurEvent.title
                     /\ r.sent_at = now
                     /\ r.updated_at = NULL
      ]_vars

\* A send replaced the record that a failed edit had been aimed at.
C4_Witness ==
    /\ last.step = "reconcile"
    /\ Len(last.calls) = 2
    /\ last.calls[2].ok
    /\ \E r \in RowsFor(sent_messages, last.guid, last.chat_id) :
           /\ r.telegram_message_id = last.calls[2].message_id
           /\ r.telegram_message_id # last.calls[1].message_id

\* C5: for a chat that is not quiet, a record whose content_hash equals the
\* event's current hash means no send, no edit and an unchanged ledger.
C5_SkipUnchanged ==
    [][(/\ pc = "reconcile"
        /\ last'.step = "reconcile"
        /\ ~CurQuiet
        /\ \E r \in CurRows : r.content_hash = get_content_hash(CurEvent)) =>
           /\ last'.calls = <<>>
           /\ sent_messages' = sent_messages
      ]_vars

C5_Witness ==
    /\ last.step = "reconcile"
    /\ last.outcome = "skip"
    /\ RowsFor(sent_messages, last.guid, last.chat_id) # {}

\* C6 (as claimed): a record with a non-zero message id and a different hash
\* means, for a chat that is not quiet, exactly one edit of that message id
\* and no send; a successful edit sets the record's hash and title to the
\* event's and updated_at, and keeps the message id.
EditCase ==
    /\ pc = "reconcile"
    /\ ~CurQuiet
    /\ \E r \in CurRows : /\ r.telegram_message_id \notin {0, NULL}
                          /\ r.content_hash # get_content_hash(CurEvent)

EditedRecord(r) ==
    [r EXCEPT !.content_hash = get_content_hash(CurEvent),
              !.message_title = CurEvent.title,
              !.updated_at = now]

C6_EditAndNoSend ==
    [][(EditCase /\ last'.step = "reconcile") =>
           \A r \in CurRows :
               /\ last'.calls # <<>>
               /\ last'.calls[1].op = "edit"
               /\ last'.calls[1].message_id = r.telegram_message_id
               /\ Len(last'.calls) = 1
               /\ last'.calls[1].ok =>
                      RowsFor(sent_messages', r.message_guid, r.chat_id) = {EditedRecord(r)}
      ]_vars

\* C6 (amended): ... exactly one edit of that message id, and a send only
\* after that edit has failed; a successful edit updates the record as above.
C6_EditThenSendOnlyOnFailure ==
    [][(EditCase /\ last'.step = "reconcile") =>
           \A r \in CurRows :
               /\ last'.calls # <<>>
               /\ EditCalls(last'.calls) = {1}
               /\ last'.calls[1].message_id = r.telegram_message_id
               /\ last'.calls[1].ok =>
                      /\ Len(last'.calls) = 1
                      /\ RowsFor(sent_messages', r.message_guid, r.chat_id) = {EditedRecord(r)}
               /\ ~last'.calls[1].ok =>
                      /\ Len(last'.calls) = 2
                      /\ last'.calls[2].op = "send"
      ]_vars

\* An edit succeeded and the record carries the new hash and updated_at.
C6_Witness ==
    /\ last.step = "reconcile"
    /\ last.outcome = "edit"
    /\ last.calls[1].ok
    /\ \E r \in RowsFor(sent_messages, last.guid, last.chat_id) :
           /\ r.updated_at # NULL
           /\ r.telegram_message_id = last.calls[1].message_id

\* C7: each (event, chat) of the reconcile loop ends as exactly one of send,
\* edit, skip, defer; at most one transport call succeeds for it, and a pair
\* that is deferred or skipped causes no transport call.
C7_OneOutcomePerPair ==
    last.step = "reconcile" =>
        /\ last.outcome \in {"send", "edit", "skip", "defer"}
        /\ Cardinality(OkCalls(last.calls)) <= 1
        /\ last.outcome \in {"defer", "skip"} => last.calls = <<>>
        /\ last.outcome = "defer" <=> last.quiet
        /\ last.outcome = "edit" =>
               /\ Len(last.calls) = 1
               /\ last.calls[1].op = "edit"
               /\ last.calls[1].ok
        /\ last.outcome = "send" =>
               /\ last.calls # <<>>
               /\ SendCalls(last.calls) = {Len(last.calls)}
               /\ \A k \in EditCalls(last.calls) : ~last.calls[k].ok

\* An edit failed and the send that followed it succeeded.
C7_Witness ==
    /\ last.step = "reconcile"
    /\ Len(last.calls) = 2
    /\ ~last.calls[1].ok
    /\ last.calls[2].ok

\* C8: for a chat inside its quiet window the only effect of the pair is an
\* insert-or-ignore into the pending queue: no transport call, no ledger read
\* or write, whether or not a record for the pair exists.
C8_QuietOnlyDefers ==
    [][(pc = "reconcile" /\ last'.step = "reconcile" /\ CurQuiet) =>
           /\ last'.calls = <<>>
           /\ last'.db = <<"add_pending_notification">>
           /\ sent_messages' = sent_messages
           /\ subscribed_chats' = subscribed_chats
           /\ pending_notifications' =
                  IF HasPending(pending_notifications, CurEvent.guid, CurChat)
                  THEN pending_notifications
                  ELSE Append(pending_notifications,
                              [chat_id |-> CurChat, message_guid |-> CurEvent.guid,
                               message_text |-> to_telegram_message(CurEvent),
                               event_title |-> CurEvent.title, created_at |-> now])
      ]_vars

\* A pair was deferred although the ledger holds a record for it.
C8_Witness ==
    /\ last.step = "reconcile"
    /\ last.outcome = "defer"
    /\ RowsFor(sent_messages, last.guid, last.chat_id) # {}
    /\ HasPending(pending_notifications, last.guid, last.chat_id)

\* C9: every cycle runs the flush step for every active chat that is not
\* quiet, whatever the fetch returned: no cycle ends right after the fetch
\* while such a chat has pending notifications.
C9_FlushEveryCycle ==
    (pc = "idle" /\ last.step = "fetch") =>
        \A c \in Chats :
            ~ /\ subscribed_chats[c].present
              /\ subscribed_chats[c].is_active
              /\ ~IsQuietAt(subscribed_chats[c].quiet_hours_start,
                            subscribed_chats[c].quiet_hours_end,
                            subscribed_chats[c].quiet_hours_tz, now)
              /\ get_pending_notifications(pending_notifications, c) # <<>>

\* C10: a flush whose send fails changes neither the pending queue nor the
\* ledger; a flush whose send succeeds empties the chat's queue and leaves
\* the queues of all other chats as they were.
C10_FlushClearsOnSuccessOnly ==
    [][(pc = "flush" /\ last'.step = "flush") =>
           /\ last'.outcome = "failed" <=>
                  (last'.calls # <<>> /\ OkCalls(last'.calls) = {})
           /\ last'.outcome = "failed" =>
                  /\ pending_notifications' = pending_notifications
                  /\ sent_messages' = sent_messages
           /\ last'.outcome \in {"single", "summary"} =>
                  /\ OkCalls(last'.calls) # {}
                  /\ get_pending_notifications(pending_notifications', CurChat) = <<>>
                  /\ \A c \in Chats \ {CurChat} :
                         get_pending_notifications(pending_notifications', c) =
                             get_pending_notifications(pending_notifications, c)
      ]_vars

\* A flush succeeded for one chat while another chat still had a queue.
C10_Witness ==
    /\ last.step = "flush"
    /\ last.outcome \in {"single", "summary"}
    /\ get_pending_notifications(pending_notifications, last.chat_id) = <<>>
    /\ \E c \in Chats \ {last.chat_id} :
           get_pending_notifications(pending_notifications, c) # <<>>


\* C11: a successful flush of n > 1 pending notifications sends exactly one
\* message that lists the first min(n, 5) titles in creation order, carries the
\* trailer with n - 5 exactly when n > 5, and writes n records (id 0,
\* "pending_summary"), one per pending guid.
C11_SummaryBatchCap ==
    [][(pc = "flush" /\ last'.step = "flush" /\ OkCalls(last'.calls) # {}) =>
           LET q == pending_notifications
               mine == {k \in 1..Len(q) : q[k].chat_id = CurChat}
               n == Cardinality(mine)
               rank(k) == Cardinality({j \in mine : q[j].created_at <= q[k].created_at})
               text == last'.calls[1].text
           IN  n > 1 =>
                   /\ Len(last'.calls) = 1
                   /\ last'.calls[1].op = "send"
                   /\ text.count = n
                   /\ DOMAIN text.titles = 1..(IF n < 5 THEN n ELSE 5)
                   /\ \A k \in mine : rank(k) <= 5 => text.titles[rank(k)] = q[k].event_title
                   /\ text.more = IF n > 5 THEN <<n - 5>> ELSE <<>>
                   /\ Cardinality(sent_messages' \ sent_messages) = n
                   /\ \A k \in mine :
                          \E r \in sent_messages' \ sent_messages :
                              /\ r.message_guid = q[k].message_guid
                              /\ r.chat_id = CurChat
                              /\ r.telegram_message_id = 0
                              /\ r.content_hash = PendingSummary
      ]_vars

\* Seven notifications flushed: five titles, trailer 2, seven records.
C11_Witness ==
    /\ last.step = "flush"
    /\ last.outcome = "summary"
    /\ last.calls[1].text.count = 7
    /\ Len(last.calls[1].text.titles) = 5
    /\ last.calls[1].text.more = <<2>>
    /\ Cardinality({r \in sent_messages : r.chat_id = last.chat_id
                                          /\ r.content_hash = PendingSummary}) = 7


\* The last transport call of the step is a send that raised an error whose
\* lower-cased text contains one of the five words.
LastCall(step) == step.calls[Len(step.calls)]

PermanentSendFailure(step) ==
    /\ step.calls # <<>>
    /\ LastCall(step).op = "send"
    /\ ~LastCall(step).ok
    /\ \E w \in LastCall(step).error.phrases :
           Lower(w) \in {"blocked", "deactivated", "not found", "kicked", "forbidden"}

Deactivations(step) == {k \in 1..Len(step.db) : step.db[k] = "unsubscribe_chat"}

DeactivatedOnly(c) ==
    /\ ~subscribed_chats'[c].is_active
    /\ \A d \in Chats \ {c} : subscribed_chats'[d] = subscribed_chats[d]

\* C12 (as claimed): every send to a chat that fails with such an error, be
\* it a send of the reconcile loop or of the flush, causes exactly one
\* unsubscribe_chat call for the chat and leaves the ledger as it was.
C12_PermanentSendDeactivates ==
    [][(last'.step \in {"reconcile", "flush"} /\ PermanentSendFailure(last')) =>
           /\ Cardinality(Deactivations(last')) = 1
           /\ DeactivatedOnly(last'.chat_id)
           /\ sent_messages' = sent_messages
      ]_vars

\* C12 (amended): a send of the reconcile loop (_send_message) that fails with
\* such an error causes exactly one unsubscribe_chat call for the chat and
\* leaves the ledger as it was; a flush send that fails, with whatever error,
\* deactivates no chat.
C12_ImmediateSendDeactivates ==
    [][/\ (last'.step = "reconcile" /\ PermanentSendFailure(last')) =>
              /\ Cardinality(Deactivations(last')) = 1
              /\ DeactivatedOnly(last'.chat_id)
              /\ sent_messages' = sent_messages
       /\ (last'.step = "flush" /\ last'.calls # <<>> /\ ~LastCall(last').ok) =>
              /\ Deactivations(last') = {}
              /\ subscribed_chats' = subscribed_chats
      ]_vars

\* A send failed with "Forbidden: ..." (matched only after lower-casing) and
\* the chat is inactive afterwards.
C12_Witness ==
    /\ last.step = "reconcile"
    /\ PermanentSendFailure(last)
    /\ LastCall(last).error.phrases = {"Forbidden"}
    /\ subscribed_chats[last.chat_id].present
    /\ ~subscribed_chats[last.chat_id].is_active


\* The last transport call of the step is a send that raised an error whose
\* lower-cased text contains none of the five words.
TransientSendFailure(step) ==
    /\ step.calls # <<>>
    /\ LastCall(step).op = "send"
    /\ ~LastCall(step).ok
    /\ ~PermanentSendFailure(step)

NothingStored ==
    /\ sent_messages' = sent_messages
    /\ pending_notifications' = pending_notifications
    /\ subscribed_chats' = subscribed_chats

\* The pair about to be reconciled had a transient send failure, nothing has
\* been delivered for it since, and its chat is not quiet.
RetryDue ==
    /\ pc = "reconcile"
    /\ last'.step = "reconcile"
    /\ awaiting[<<CurEvent.guid, CurChat>>]
    /\ ~CurQuiet

\* C13 (as claimed): an immediate send that fails with a transient error
\* changes no stored state, and every later reconcile of the pair, with the
\* chat not quiet, attempts the send again until it succeeds.
C13_TransientSendRetried ==
    [][/\ (last'.step = "reconcile" /\ TransientSendFailure(last')) => NothingStored
       /\ RetryDue => SendCalls(last'.calls) # {}
      ]_vars

\* C13 (amended): ... every later reconcile of the pair, with the chat not
\* quiet, attempts the delivery again: the send, preceded by an edit when the
\* ledger holds a record of the pair with a message id, and left out only
\* when that edit succeeds.
C13_TransientDeliveryRetried ==
    [][/\ (last'.step = "reconcile" /\ TransientSendFailure(last')) => NothingStored
       /\ RetryDue =>
              /\ last'.calls # <<>>
              /\ \/ SendCalls(last'.calls) = {Len(last'.calls)}
                 \/ /\ Len(last'.calls) = 1
                    /\ last'.calls[1].op = "edit"
                    /\ last'.calls[1].ok
              /\ (\A r \in CurRows : r.telegram_message_id \in {0, NULL}) =>
                     last'.calls[1].op = "send"
      ]_vars

\* The only chat's send of g1 failed in the first cycle (nothing was stored)
\* and the second cycle has sent it.
C13_Witness ==
    /\ cycles = 2
    /\ faults = 1
    /\ last.step = "reconcile"
    /\ last.guid = "g1"
    /\ Len(last.calls) = 1
    /\ last.calls[1].op = "send"
    /\ last.calls[1].ok
    /\ pending_notifications = <<>>
    /\ \A d \in Chats \ {last.chat_id} : ~subscribed_chats[d].present
    /\ RowsFor(sent_messages, "g1", last.chat_id) =
           {NewRecord("g1", last.chat_id, 1, get_content_hash(_parse_entry("g1")),
                      feed["g1"].title, now)}


\* C14: fetch_events makes at most three attempts and stops at the first
\* success; it sleeps 4 s after the first failure, 8 s after the second and
\* not after the third; the third failure ends the cycle with no events, no
\* transport call and no change to the ledger, the queue or the directory.
C14_FetchRetrySchedule ==
    [][/\ pc' = "fetch" => attempt' \in 0..2
       /\ (pc = "fetch" /\ last'.outcome = "ok") => pc' # "fetch"
       /\ (pc = "fetch" /\ last'.outcome # "ok") =>
              /\ last'.step = "fetch"
              /\ last'.calls = <<>>
              /\ sent_messages' = sent_messages
              /\ pending_notifications' = pending_notifications
              /\ subscribed_chats' = subscribed_chats
              /\ attempt = 0 => (last'.backoff = <<4>> /\ pc' = "fetch" /\ attempt' = 1)
              /\ attempt = 1 => (last'.backoff = <<8>> /\ pc' = "fetch" /\ attempt' = 2)
              /\ attempt = 2 => (last'.backoff = <<>> /\ pc' = "idle" /\ events' = <<>>)
      ]_vars

\* Three attempts failed although the feed had an entry and a chat was
\* subscribed: the cycle is over and nothing was sent or stored.
C14_Witness ==
    /\ last.step = "fetch"
    /\ last.outcome = "exhausted"
    /\ pc = "idle"
    /\ consecutive_failures > 0
    /\ sent_messages = {}
    /\ \E g \in Guids : feed[g] # NoEntry
    /\ \E c \in Chats : subscribed_chats[c].present /\ subscribed_chats[c].is_active


\* C15: the consecutive-failure counter is 0 after a successful fetch, grows
\* by exactly 1 when the third attempt of a cycle fails and by nothing on the
\* first two; with no success yet it equals the number of cycles run; the
\* last-success timestamp changes only on a successful fetch, to the time of it.
C15_FailureCounter ==
    [][/\ (pc = "fetch" /\ last'.outcome = "ok") =>
              /\ consecutive_failures' = 0
              /\ last_successful_fetch' = now
       /\ (pc = "fetch" /\ last'.outcome = "retry") =>
              consecutive_failures' = consecutive_failures
       /\ (pc = "fetch" /\ last'.outcome = "exhausted") =>
              /\ attempt = 2
              /\ consecutive_failures' = consecutive_failures + 1
       /\ pc # "fetch" => consecutive_failures' = consecutive_failures
       /\ ~(pc = "fetch" /\ last'.outcome = "ok") =>
              last_successful_fetch' = last_successful_fetch
       /\ (pc' = "idle" /\ last_successful_fetch' = NULL) => consecutive_failures' = cycles'
      ]_vars

\* Two cycles in a row ran out of attempts: the counter is 2, no success yet.
C15_Witness ==
    /\ pc = "idle"
    /\ last.step = "fetch"
    /\ last.outcome = "exhausted"
    /\ cycles = 2
    /\ consecutive_failures = 2
    /\ last_successful_fetch = NULL


\* C16: the quiet test on times of day in minutes: false when start or end
\* is missing; with start > end, true iff now >= start or now <= end; else
\* true iff start <= now <= end.  (22:00, 07:00) is quiet at 23:30 and not at
\* 12:00; (07:00, 22:00) is quiet at 12:00.
QuietAsSpecified(qs, qe, t) ==
    IF qs = <<>> \/ qe = <<>>
    THEN FALSE
    ELSE LET s == 60 * qs[1] + qs[2]
             e == 60 * qe[1] + qe[2]
         IN  IF s > e THEN t >= s \/ t <= e ELSE s <= t /\ t <= e

C16_QuietWindow ==
    [][(pc = "flush" /\ last'.step = "flush") =>
           LET local == (now + 60 * TIMEZONES[CurChatInfo.quiet_hours_tz]) % 1440
           IN  /\ last'.quiet = QuietAsSpecified(CurChatInfo.quiet_hours_start,
                                                 CurChatInfo.quiet_hours_end, local)
               /\ last'.quiet => (last'.calls = <<>> /\ UNCHANGED pending_notifications)
               /\ ~last'.quiet => last'.calls # <<>>
               /\ (CurChatInfo.quiet_hours_start = <<22, 0>>
                     /\ CurChatInfo.quiet_hours_end = <<7, 0>>) =>
                      /\ local = 1410 => last'.quiet
                      /\ local = 720 => ~last'.quiet
               /\ (CurChatInfo.quiet_hours_start = <<7, 0>>
                     /\ CurChatInfo.quiet_hours_end = <<22, 0>>
                     /\ local = 720) => last'.quiet
      ]_vars

\* The flush found a chat with window 22:00-07:00 UTC quiet at 07:00 sharp.
C16_Witness ==
    /\ last.step = "flush"
    /\ last.quiet
    /\ now = 420
    /\ subscribed_chats[1].quiet_hours_start = <<22, 0>>
    /\ subscribed_chats[1].quiet_hours_end = <<7, 0>>
    /\ subscribed_chats[1].quiet_hours_tz = "UTC"
    /\ pending_notifications # <<>>


\* C17.  Every event of the fetched list carries the kind the precedence
\* Resolved > Maintenance > Incident > Unknown gives to the keyword classes of
\* its feed entry, whichever other classes occur with them, and the kind is
\* one of the four; the text of every message sent for the event names that
\* kind.
KindAsSpecified(flags) ==
    CASE "resolved" \in flags -> "resolved"
      [] "resolved" \notin flags /\ "maintenance" \in flags -> "maintenance"
      [] flags = {"incident"} -> "incident"
      [] flags = {} -> "unknown"

C17_ClassificationPrecedence ==
    /\ \A k \in 1..Len(events) :
           /\ events[k].event_type = KindAsSpecified(feed[events[k].guid].flags)
           /\ events[k].event_type \in {"resolved", "maintenance", "incident", "unknown"}
    /\ \A k \in 1..Len(last.calls) :
           last.step = "reconcile" /\ last.calls[k].op = "send" =>
               last.calls[k].text[2] = KindAsSpecified(feed[last.guid].flags)

C17_Witness ==
    /\ last.step = "reconcile"
    /\ last.outcome = "send"
    /\ feed[last.guid].flags = KeywordClasses
    /\ last.calls[1].ok
    /\ last.calls[1].text[2] = "resolved"
    /\ \E k \in 1..Len(events) :
           /\ feed[events[k].guid].flags = {"maintenance", "incident"}
           /\ events[k].event_type = "maintenance"


\* C18 (as claimed): when the chat already holds a record whose fingerprint is
\* that of the event being reconciled, whatever guid the record was written
\* under, the step issues no transport call: a change of guid alone, like one
\* of date or link alone, causes no edit and no send.
C18_MetadataChangeNeverSends ==
    [][(/\ pc = "reconcile"
        /\ last'.step = "reconcile"
        /\ ~CurQuiet
        /\ \E r \in sent_messages : /\ r.chat_id = CurChat
                                    /\ r.content_hash = get_content_hash(CurEvent)) =>
           last'.calls = <<>>
      ]_vars

\* C18 (amended): the fingerprint of an event is that of every event with the
\* same title, description and kind, whatever its guid, date and link; and
\* when the record of (guid, chat) was written from an event that differs from
\* the current one of the same guid in date and link only, a chat that is not
\* quiet gets no edit and no send and the ledger stays as it is.
MetaDates == ClockReadings \cup {Noon}
MetaLinks == {"L1", "L2"}

Renderings(e) ==
    {[e EXCEPT !.published = p, !.link = l] : p \in MetaDates, l \in MetaLinks}

C18_HashIgnoresMetadata ==
    [][/\ \A k \in 1..Len(events) :
              \A e0 \in Renderings(events[k]), g \in Guids :
                  get_content_hash([e0 EXCEPT !.guid = g]) = get_content_hash(events[k])
       /\ (/\ pc = "reconcile"
           /\ last'.step = "reconcile"
           /\ ~CurQuiet
           /\ \E r \in CurRows, e0 \in Renderings(CurEvent) :
                  r.content_hash = get_content_hash(e0)) =>
              /\ last'.outcome = "skip"
              /\ last'.calls = <<>>
              /\ sent_messages' = sent_messages
      ]_vars

\* An event was skipped whose entry had been re-dated and re-linked after the
\* record of the pair was written.
C18_Witness ==
    /\ last.step = "reconcile"
    /\ last.outcome = "skip"
    /\ feed[last.guid].link = "L2"
    /\ \E r \in RowsFor(sent_messages, last.guid, last.chat_id) :
           /\ r.sent_at < feed[last.guid].published
           /\ r.content_hash = get_content_hash(events[ei])
           /\ events[ei].link = "L2"


\* C19: whenever a cycle ends, every (guid, chat) for which the ending step
\* had a transport send succeed has a record in the ledger; and every other
\* step with a successful send leaves the record of its pair in the ledger.
C19_RecordWithEverySend ==
    [][(\E k \in 1..Len(last'.calls) : last'.calls[k].op = "send" /\ last'.calls[k].ok) =>
           IF last'.step = "reconcile"
           THEN RowsFor(sent_messages', last'.guid, last'.chat_id) # {}
           ELSE \A g \in BatchGuids(get_pending_notifications(pending_notifications,
                                                              last'.chat_id)) :
                    RowsFor(sent_messages', g, last'.chat_id) # {}
      ]_vars

\* C20: a step in which a store operation fails does not end the cycle: a
\* reconcile step is followed by the remaining pairs or the flush, a flush
\* step by the remaining chats or the retention sweep.
C20_StoreErrorConfined ==
    [][last'.outcome = "store_error" =>
           IF last'.step = "reconcile"
           THEN pc' \in {"reconcile", "flush"}
           ELSE pc' \in {"flush", "cleanup"}
      ]_vars

\* C21: every step in which a failure occurs that later cycles retry (the
\* fetch running out of attempts, an immediate send failing transiently, a
\* flush send failing) changes one of the failure counters shown by /stats.
RetriedFailure(step) ==
    \/ step.step = "fetch" /\ step.outcome = "exhausted"
    \/ step.step = "reconcile" /\ TransientSendFailure(step)
    \/ step.step = "flush" /\ step.outcome = "failed"

C21_FailuresAreCounted ==
    [][RetriedFailure(last') => FailureCounters' # FailureCounters]_vars

\* C22: a status probe, whatever its outcome and whenever it runs, leaves the
\* consecutive-failure counter, the last-success timestamp and the position
\* of a running fetch as they were, makes exactly one request, and returns a
\* result (reachable, unreachable or parse error).
C22_ProbeLeavesRetryState ==
    [][last'.step = "probe" =>
           /\ consecutive_failures' = consecutive_failures
           /\ last_successful_fetch' = last_successful_fetch
           /\ attempt' = attempt
           /\ pc' = pc
           /\ Len(last'.calls) = 1
           /\ last'.outcome \in ProbeOutcomes
      ]_vars

\* The probe found the feed unreachable in the middle of a cycle's retries,
\* after an earlier cycle had run out of attempts.
C22_Witness ==
    /\ last.step = "probe"
    /\ last.outcome = "unreachable"
    /\ pc = "fetch"
    /\ attempt = 1
    /\ consecutive_failures = 1

\* C23: a step of a polling cycle (fetch, reconcile, flush, sweep) adds and
\* removes no directory row, changes no quiet window and activates nobody; it
\* deactivates a chat only in a reconcile step for that chat whose send
\* failed with a permanent error.
CycleSteps == {"fetch", "reconcile", "flush", "cleanup"}

C23_DirectoryFrame ==
    [][last'.step \in CycleSteps =>
           \A c \in Chats :
               /\ subscribed_chats'[c].present = subscribed_chats[c].present
               /\ subscribed_chats'[c].quiet_hours_start = subscribed_chats[c].quiet_hours_start
               /\ subscribed_chats'[c].quiet_hours_end = subscribed_chats[c].quiet_hours_end
               /\ subscribed_chats'[c].quiet_hours_tz = subscribed_chats[c].quiet_hours_tz
               /\ subscribed_chats'[c].is_active => subscribed_chats[c].is_active
               /\ (subscribed_chats[c].is_active /\ ~subscribed_chats'[c].is_active) =>
                      /\ last'.step = "reconcile"
                      /\ last'.chat_id = c
                      /\ PermanentSendFailure(last')
      ]_vars

\* A chat with a night window was deactivated by a blocked send at noon and
\* kept its window.
C23_Witness ==
    /\ last.step = "reconcile"
    /\ PermanentSendFailure(last)
    /\ subscribed_chats[last.chat_id].present
    /\ ~subscribed_chats[last.chat_id].is_active
    /\ subscribed_chats[last.chat_id].quiet_hours_start = NightWindow.quiet_hours_start
    /\ subscribed_chats[last.chat_id].quiet_hours_end = NightWindow.quiet_hours_end

\* C24: the counts returned by an import add up to the number of rows of the
\* backup.  In merge mode every row the directory held before is unchanged and
\* every backup row whose chat id the directory already held is among the
\* skipped.  In replace mode the directory afterwards holds exactly the chat
\* ids of the rows imported successfully.
Imported(rows) == {k \in 1..Len(rows) : rows[k].chat_id # 0 /\ ~rows[k].bad}

C24_ImportCounts ==
    [][last'.step = "restore" =>
           LET rep == last'.report[1]
               rows == rep.backup
           IN  /\ rep.imported + rep.skipped + rep.errors = Len(rows)
               /\ rep.total_in_backup = Len(rows)
               /\ rep.merge =>
                      /\ \A c \in Chats : subscribed_chats[c].present =>
                                              subscribed_chats'[c] = subscribed_chats[c]
                      /\ rep.skipped >=
                             Cardinality({k \in 1..Len(rows) :
                                             /\ rows[k].chat_id # 0
                                             /\ subscribed_chats[rows[k].chat_id].present})
               /\ ~rep.merge =>
                      /\ {c \in Chats : subscribed_chats'[c].present} =
                             {rows[k].chat_id : k \in Imported(rows)}
                      /\ rep.imported = Cardinality(Imported(rows))
                      /\ rep.skipped = 0
      ]_vars

\* A merge of three rows into a directory holding chat 1: one row skipped
\* (chat 1), one imported (chat 2), one in error (no chat id).
C24_Witness ==
    /\ last.step = "restore"
    /\ last.report[1].merge
    /\ Len(last.report[1].backup) = 3
    /\ last.report[1].imported = 1
    /\ last.report[1].skipped = 1
    /\ last.report[1].errors = 1
    /\ subscribed_chats[1].present
    /\ subscribed_chats[1].quiet_hours_start = <<>>
    /\ subscribed_chats[2].present

\* The step about to be taken edits, the edit fails, and the send that
\* follows fails too.
EditAndSendFailed(step) ==
    /\ step.step = "reconcile"
    /\ Len(step.calls) = 2
    /\ ~step.calls[1].ok
    /\ ~step.calls[2].ok

\* C25 (as claimed): when the edit and the send that follows it both fail,
\* the record stays as it was and the pair is due for another edit in the
\* next cycle: the chat is still active.
C25_FailedResendRetried ==
    [][(EditCase /\ EditAndSendFailed(last')) =>
           /\ sent_messages' = sent_messages
           /\ subscribed_chats'[last'.chat_id].is_active
      ]_vars

\* C25 (amended): a failed edit is followed by exactly one send in the same
\* step.  If the send succeeds the pair's only record carries the new message
\* id and the event's hash.  If it fails the ledger is unchanged, so the
\* record still calls for an edit; the chat stays active iff the failure was
\* transient.  Whenever a pair with such a record is reconciled for a chat
\* that is not quiet, the edit of the recorded message comes first.
C25_FailedEditFallsThrough ==
    [][(EditCase /\ last'.step = "reconcile") =>
           \A r \in CurRows :
               /\ last'.calls # <<>>
               /\ last'.calls[1].op = "edit"
               /\ last'.calls[1].message_id = r.telegram_message_id
               /\ ~last'.calls[1].ok =>
                      /\ Len(last'.calls) = 2
                      /\ last'.calls[2].op = "send"
                      /\ last'.calls[2].ok =>
                             /\ RowsFor(sent_messages', r.message_guid, r.chat_id) =
                                    {NewRecord(r.message_guid, r.chat_id,
                                               last'.calls[2].message_id,
                                               get_content_hash(CurEvent), CurEvent.title, now)}
                             /\ last'.calls[2].message_id # r.telegram_message_id
                             /\ Keys(sent_messages') = Keys(sent_messages)
                      /\ ~last'.calls[2].ok =>
                             /\ sent_messages' = sent_messages
                             /\ r.content_hash # get_content_hash(CurEvent)
                             /\ subscribed_chats'[r.chat_id].is_active
                                    <=> TransientSendFailure(last')
      ]_vars

\* The only chat held message 1; the edit and the send failed in the first
\* cycle, and the second cycle edited message 1.
C25_Witness ==
    /\ ~subscribed_chats[2].present
    /\ cycles = 2
    /\ faults = 1
    /\ last.step = "reconcile"
    /\ last.chat_id = 1
    /\ last.outcome = "edit"
    /\ last.calls[1].ok
    /\ last.calls[1].message_id = 1
    /\ \E r \in RowsFor(sent_messages, last.guid, 1) :
           r.telegram_message_id = 1 /\ r.updated_at # NULL

\* C26: the pending queue holds at most one row per (guid, chat).  A defer of
\* a pair that has no row appends one with the event's text and title and the
\* current time; a defer of a pair that has a row changes nothing, whatever
\* the event's content now is; and the flush of a single row sends the text
\* that row holds.
PendingRows(q, g, c) == {k \in 1..Len(q) : q[k].message_guid = g /\ q[k].chat_id = c}

C26_OnePendingPerPair ==
    [][/\ \A g \in Guids, c \in Chats :
              Cardinality(PendingRows(pending_notifications', g, c)) <= 1
       /\ (pc = "reconcile" /\ CurQuiet /\ last'.step = "reconcile") =>
              IF PendingRows(pending_notifications, CurEvent.guid, CurChat) # {}
              THEN pending_notifications' = pending_notifications
              ELSE pending_notifications' =
                       Append(pending_notifications,
                              [chat_id |-> CurChat, message_guid |-> CurEvent.guid,
                               message_text |-> to_telegram_message(CurEvent),
                               event_title |-> CurEvent.title, created_at |-> now])
       /\ (last'.step = "flush" /\ last'.outcome = "single") =>
              \E k \in PendingRows(pending_notifications, last'.guid, last'.chat_id) :
                  last'.calls[1].text = pending_notifications[k].message_text
      ]_vars

\* The entry was edited while its notification was queued and deferred again
\* in the second cycle; the flush sent the rendering queued first, not the one
\* in the feed, and nothing else was delivered to the chat.
C26_Witness ==
    /\ last.step = "flush"
    /\ last.outcome = "single"
    /\ last.calls[1].ok
    /\ last.calls[1].text[3] = EntryV1.title
    /\ feed[last.guid].title = EntryV2.title
    /\ cycles = 2
    /\ delivered[<<last.guid, last.chat_id>>] = 1
    /\ faults = 0

\* C27: a key enters the ledger only in a step whose transport send for that
\* pair (or for the batch holding it) succeeded; a record written by a send
\* has updated_at null, and a record's updated_at changes to a time only in
\* a step whose edit of that pair succeeded; a key leaves the ledger only in
\* the retention sweep.
SentOk(step) == \E k \in SendCalls(step.calls) : step.calls[k].ok

C27_RecordLifecycle ==
    [][/\ \A key \in Keys(sent_messages') \ Keys(sent_messages) :
              /\ SentOk(last')
              /\ key[2] = last'.chat_id
              /\ \/ last'.step = "reconcile" /\ key[1] = last'.guid
                 \/ /\ last'.step = "flush"
                    /\ key[1] \in BatchGuids(get_pending_notifications(pending_notifications,
                                                                       last'.chat_id))
       /\ \A r \in sent_messages' \ sent_messages :
              IF SentOk(last')
              THEN r.updated_at = NULL
              ELSE /\ last'.step = "reconcile"
                   /\ last'.outcome = "edit"
                   /\ last'.calls[1].ok
                   /\ r.message_guid = last'.guid
                   /\ r.chat_id = last'.chat_id
                   /\ r.updated_at = now
       /\ Keys(sent_messages) \ Keys(sent_messages') # {} => last'.step = "cleanup"
      ]_vars

\* The sweep of the first cycle has removed every old record, also that of a
\* chat that unsubscribed or was deactivated, and has kept a record that the
\* cycle edited.
C27_Witness ==
    /\ last.step = "cleanup"
    /\ \A r \in sent_messages : r.message_guid # "g2"
    /\ \E r \in sent_messages : r.updated_at # NULL /\ r.sent_at = Noon /\ r.updated_at = now
    /\ \E c \in Chats : subscribed_chats[c].present /\ ~subscribed_chats[c].is_active
    /\ cycles = 1

\* C28: the flush treats a chat as quiet exactly when the local time of day,
\* (UTC time + offset hours) modulo 24 h with offsets UTC 0, BRT -3, AMT -4,
\* ACT -5, FNT -2 and 0 for any other or missing name, lies in the chat's
\* window; 01:30 UTC is 22:30 BRT and lies in 22:00-07:00 BRT.
OffsetAsSpecified(tz) ==
    CASE tz = "UTC" -> 0
      [] tz = "BRT" -> -3
      [] tz = "AMT" -> -4
      [] tz = "ACT" -> -5
      [] tz = "FNT" -> -2
      [] OTHER -> 0

LocalAsSpecified(t, tz) ==
    LET shifted == (t % (24 * 60)) + 60 * OffsetAsSpecified(tz)
    IN  IF shifted < 0 THEN shifted + 24 * 60
        ELSE IF shifted >= 24 * 60 THEN shifted - 24 * 60
        ELSE shifted

C28_LocalTimeOfDay ==
    [][(pc = "flush" /\ last'.step = "flush") =>
           LET local == LocalAsSpecified(now, CurChatInfo.quiet_hours_tz)
               start == 60 * CurChatInfo.quiet_hours_start[1] + CurChatInfo.quiet_hours_start[2]
               end == 60 * CurChatInfo.quiet_hours_end[1] + CurChatInfo.quiet_hours_end[2]
           IN  last'.quiet <=> IF start > end
                               THEN local >= start \/ local <= end
                               ELSE start <= local /\ local <= end
      ]_vars

\* At 01:30 UTC the flush found a chat with a 22:00-07:00 BRT window quiet.
C28_Witness ==
    /\ last.step = "flush"
    /\ last.quiet
    /\ now = 90
    /\ subscribed_chats[1].quiet_hours_tz = "BRT"
    /\ subscribed_chats[1].quiet_hours_start = <<22, 0>>
    /\ subscribed_chats[1].quiet_hours_end = <<7, 0>>

\* What the age filter is claimed to let through at time t: entries that parse
\* and whose date, or t when they have none, is not before t minus the
\* maximum age.
DateAsSpecified(g, t) == IF feed[g].published = NULL THEN t ELSE feed[g].published

Kept(g, t) ==
    /\ feed[g] # NoEntry
    /\ ~feed[g].broken
    /\ DateAsSpecified(g, t) >= t - max_message_age_days * 24 * 60

EventGuids(evs) == {evs[k].guid : k \in 1..Len(evs)}

\* g is an entry the fetch of the running cycle left out.
DroppedAtFetch(g) == pc \in {"reconcile", "flush"} /\ ~Kept(g, last_successful_fetch)

\* C29: the events a fetch hands to reconciliation are those of the entries
\* whose date is not before fetch time minus the maximum age, the cutoff
\* included, an entry without a date counting as dated now; and every
\* reconcile step, with the send, edit, defer or ledger change it makes, is
\* for such an event. For an entry the fetch dropped, the rest of the cycle
\* queues nothing, and sends or records something only in the flush, for a
\* notification that was already waiting in the queue.
C29_AgeFilter ==
    [][/\ (pc = "fetch" /\ pc' = "reconcile") =>
              /\ EventGuids(events') = {g \in Guids : Kept(g, now)}
              /\ \A k \in 1..Len(events') :
                     events'[k].published = DateAsSpecified(events'[k].guid, now)
       /\ (pc = "fetch" /\ last'.outcome = "ok" /\ pc' = "idle") =>
              \/ {g \in Guids : Kept(g, now)} = {}
              \/ get_active_chats(subscribed_chats) = <<>>
       /\ last'.step = "reconcile" =>
              /\ Kept(last'.guid, now)
              /\ \A r \in sent_messages' \ sent_messages : r.message_guid = last'.guid
              /\ \A k \in 1..Len(pending_notifications') :
                     k > Len(pending_notifications) =>
                         pending_notifications'[k].message_guid = last'.guid
       /\ \A g \in Guids : DroppedAtFetch(g) =>
              /\ \A k \in 1..Len(pending_notifications') :
                     k > Len(pending_notifications) =>
                         pending_notifications'[k].message_guid # g
              /\ \A c \in Chats :
                     \/ /\ delivered'[<<g, c>>] = delivered[<<g, c>>]
                        /\ \A r \in sent_messages' \ sent_messages :
                               ~(r.message_guid = g /\ r.chat_id = c)
                     \/ /\ last'.step = "flush"
                        /\ last'.chat_id = c
                        /\ \E k \in 1..Len(pending_notifications) :
                               /\ pending_notifications[k].message_guid = g
                               /\ pending_notifications[k].chat_id = c
      ]_vars

\* Second cycle, late evening: the entry that was exactly at the cutoff at
\* noon, and was delivered then, is now dropped; the entry without a date is
\* still an event, dated now.
C29_Witness ==
    /\ cycles = 2
    /\ now = LateEvening
    /\ last.step = "reconcile"
    /\ Len(events) = 1
    /\ feed[events[1].guid].published = NULL
    /\ events[1].published = LateEvening
    /\ \E g \in Guids :
           /\ feed[g].published = Noon - max_message_age_days * MinutesPerDay
           /\ ~feed[g].broken
           /\ \E r \in sent_messages : r.message_guid = g /\ r.sent_at = Noon

\* C29 as stated, for every step of the cycle: between a fetch and the end of
\* its cycle nothing is sent, recorded or queued for an entry the fetch dropped.
C29_DroppedEventUntouched ==
    [][\A g \in Guids : DroppedAtFetch(g) =>
           /\ \A c \in Chats : delivered'[<<g, c>>] = delivered[<<g, c>>]
           /\ \A r \in sent_messages' \ sent_messages : r.message_guid # g
           /\ \A k \in 1..Len(pending_notifications') :
                  k > Len(pending_notifications) =>
                      pending_notifications'[k].message_guid # g
      ]_vars

\* C30: an entry that fails to parse is left out and nothing else changes:
\* the fetch succeeds (counter 0), the events are the other entries that pass
\* the age filter, in feed order, and the cycle reconciles every one of them
\* with every active chat before it goes on to the flush.
RECURSIVE InFeedOrder(_, _)
InFeedOrder(order, t) ==
    IF order = <<>>
    THEN <<>>
    ELSE IF Kept(Head(order), t)
    THEN <<Head(order)>> \o InFeedOrder(Tail(order), t)
    ELSE InFeedOrder(Tail(order), t)

C30_BrokenEntrySkipped ==
    [][/\ (pc = "fetch" /\ last'.outcome = "ok") =>
              /\ consecutive_failures' = 0
              /\ last_successful_fetch' = now
              /\ pc' = "reconcile" =>
                     /\ [k \in 1..Len(events') |-> events'[k].guid] =
                            InFeedOrder(<<"g1", "g2">>, now)
                     /\ \A k \in 1..Len(events') : ~feed[events'[k].guid].broken
              /\ pc' = "idle" =>
                     \/ InFeedOrder(<<"g1", "g2">>, now) = <<>>
                     \/ get_active_chats(subscribed_chats) = <<>>
       /\ last'.step = "reconcile" =>
              /\ last'.guid = events[ei].guid
              /\ last'.chat_id = active_chats[ci].chat_id
              /\ pc' = "flush" <=> (ei = Len(events) /\ ci = Len(active_chats))
              /\ pc' = "reconcile" =>
                     IF ci < Len(active_chats)
                     THEN ei' = ei /\ ci' = ci + 1
                     ELSE ei' = ei + 1 /\ ci' = 1
              /\ events' = events
      ]_vars

\* The first entry of the feed failed to parse and the second was delivered.
C30_Witness ==
    /\ feed["g1"] # NoEntry
    /\ feed["g1"].broken
    /\ Len(events) = 1
    /\ events[1].guid = "g2"
    /\ consecutive_failures = 0
    /\ last.step = "reconcile"
    /\ last.guid = "g2"
    /\ last.outcome = "send"
    /\ last.calls[1].ok
    /\ \E r \in sent_messages : r.message_guid = "g2"


\* C31: under SpecFeed no entry ever changes its title, description or kind,
\* so the content of every message delivered for a guid is the event's current
\* content; the claim then says that no reconcile step issues a transport
\* edit, also for a pair whose message came from a quiet-window flush.
C31_EditOnlyOnChange ==
    [][last'.step = "reconcile" => EditCalls(last'.calls) = {}]_vars


\* The guid the claim gives an entry without id: a function of the title and
\* the raw description, different for different pairs.
AnonGuid(e) == <<e.title, e.description>>

\* C32: an entry without id gets a guid that differs whenever its title or raw
\* description differs, so a changed entry is reconciled under a guid of its
\* own; and no reconcile step ever issues an edit for such an entry.
C32_DerivedGuidNeverEdited ==
    [][/\ (pc = "fetch" /\ pc' = "reconcile") =>
              /\ Len(events') = 1
              /\ \A v \in AnonVersions :
                     AnonGuid(v) = AnonGuid(feed["g1"])
                         <=> events'[1].guid = _generate_guid(v.title, v.description)
       /\ last'.step = "reconcile" => EditCalls(last'.calls) = {}
      ]_vars


\* The recipient and window the running loop is at, as read after the fetch.
SnapshotQuiet ==
    IsQuietAt(active_chats[ci].quiet_hours_start, active_chats[ci].quiet_hours_end,
              active_chats[ci].quiet_hours_tz, now)

\* C33: the recipients are read once, after the fetch, and that list, with the
\* quiet windows it carries, is what the reconcile and flush loops of the cycle
\* go through, whatever happens to the directory meanwhile: every pair of the
\* list is reconciled and every recipient flushed, quiet or not as the list
\* says, with a transport call whenever the list's window is open and there is
\* something to deliver; the next fetch reads the directory again.
C33_SnapshotIterated ==
    [][/\ (pc = "fetch" /\ pc' = "reconcile") =>
              active_chats' = get_active_chats(subscribed_chats)
       /\ pc \in {"reconcile", "flush"} => active_chats' = active_chats
       /\ last'.step = "reconcile" =>
              /\ pc = "reconcile"
              /\ last'.chat_id = active_chats[ci].chat_id
              /\ last'.guid = events[ei].guid
              /\ last'.quiet = SnapshotQuiet
              /\ last'.outcome = "defer" <=> SnapshotQuiet
              /\ (~SnapshotQuiet /\ RowsFor(sent_messages, events[ei].guid,
                                            active_chats[ci].chat_id) = {})
                     => SendCalls(last'.calls) # {}
              /\ pc' = "flush" <=> (ei = Len(events) /\ ci = Len(active_chats))
       /\ last'.step = "flush" =>
              /\ pc = "flush"
              /\ last'.chat_id = active_chats[ci].chat_id
              /\ last'.outcome = "quiet" <=> SnapshotQuiet
              /\ (~SnapshotQuiet
                  /\ get_pending_notifications(pending_notifications,
                                               active_chats[ci].chat_id) # <<>>)
                     => SendCalls(last'.calls) # {}
              /\ pc' = "cleanup" <=> ci = Len(active_chats)
      ]_vars

\* A chat that sent /stop during the cycle is inactive in the directory and is
\* still sent the cycle's second announcement.
C33_Witness ==
    /\ commands = 1
    /\ faults = 0
    /\ last.step = "reconcile"
    /\ last.guid = "g2"
    /\ last.outcome = "send"
    /\ last.calls[1].ok
    /\ subscribed_chats[last.chat_id].present
    /\ ~subscribed_chats[last.chat_id].is_active
    /\ delivered[<<"g1", last.chat_id>>] = 1


QueueRows(q) == {q[k] : k \in 1..Len(q)}

\* C34: a row leaves the pending queue only in a flush step for its own chat
\* whose send succeeded; no command, deactivation or sweep removes one. A
\* flush for a chat that is in the cycle's list and not quiet sends what the
\* queue holds for it, however old.
C34_QueueOutlivesDeactivation ==
    [][/\ \A r \in QueueRows(pending_notifications) \ QueueRows(pending_notifications') :
              /\ last'.step = "flush"
              /\ last'.outcome \in {"single", "summary"}
              /\ last'.calls[1].ok
              /\ last'.chat_id = r.chat_id
       /\ last'.step = "flush" =>
              LET c == active_chats[ci].chat_id
                  pending == get_pending_notifications(pending_notifications, c)
              IN  (last'.outcome # "quiet" /\ pending # <<>>) =>
                      /\ Len(last'.calls) = 1
                      /\ last'.calls[1].op = "send"
                      /\ last'.calls[1].text = FlushText(pending)
                      /\ last'.calls[1].ok =>
                             get_pending_notifications(pending_notifications', c) = <<>>
      ]_vars

\* Chat 1, unsubscribed with a row in its queue, has sent /start; the first
\* cycle ran in the late evening and the flush of the second, at noon of the
\* next day, sends chat 1 the row that was deferred a day and a half before.
C34_Witness ==
    /\ cycles = 2
    /\ commands = 1
    /\ now = MinutesPerDay + Noon
    /\ last_successful_fetch = now
    /\ subscribed_chats[1].is_active
    /\ last.step = "flush"
    /\ last.chat_id = 1
    /\ last.outcome = "single"
    /\ last.calls[1].ok
    /\ last.calls[1].text = QueuedRow(1).message_text
    /\ get_pending_notifications(pending_notifications, 1) = <<>>
    /\ \E r \in QueueRows(pending_notifications) :
           r.chat_id = 2 /\ r.created_at = LateEvening


\* C35: the sweep deletes no record of an event that still passes the age
\* filter, and no reconcile step sends an event to a chat that was already
\* delivered it.
C35_SweepKeepsLiveRecords ==
    [][/\ pc = "cleanup" =>
              \A r \in sent_messages \ sent_messages' : ~Kept(r.message_guid, now)
       /\ (last'.step = "reconcile" /\ SendCalls(last'.calls) # {}) =>
              delivered[<<last'.guid, last'.chat_id>>] = 0
      ]_vars


C37_EveryRecordSent ==
    /\ \A r \in sent_messages : r.delivery_status = "sent"
    /\ get_stats(subscribed_chats, sent_messages).failed_deliveries = 0
    /\ get_stats(subscribed_chats, sent_messages).total_messages_sent =
           Cardinality(Keys(sent_messages))

\* A send has just failed, the ledger holds records of two chats, and the
\* stats count no failed delivery.
C37_Witness ==
    /\ faults = 1
    /\ last.step = "reconcile"
    /\ last.calls # <<>>
    /\ ~last.calls[Len(last.calls)].ok
    /\ Cardinality(Keys(sent_messages)) >= 2
    /\ get_stats(subscribed_chats, sent_messages).failed_deliveries = 0


WindowOf(row) == <<row.quiet_hours_start, row.quiet_hours_end, row.quiet_hours_tz>>

\* C38: subscribe_chat returns true iff the chat had no row or an inactive
\* one, and leaves it active, with the quiet window its row had; unsubscribe_chat
\* returns true iff the chat was active, and leaves it inactive with its row
\* and quiet window; both leave every other chat, the ledger and the queue
\* alone; and a call repeated right after returns false and changes nothing.
C38_SubscriptionMachine ==
    [][/\ last'.step = "subscribe" =>
              LET c == last'.chat_id
                  before == subscribed_chats[c]
                  after == subscribed_chats'[c]
              IN  /\ last'.report = <<~before.present \/ ~before.is_active>>
                  /\ after.present /\ after.is_active
                  /\ before.present => WindowOf(after) = WindowOf(before)
                  /\ (before.present /\ before.is_active) =>
                         subscribed_chats' = subscribed_chats
                  /\ ~is_new(subscribed_chats', c)
                  /\ subscribe_chat(subscribed_chats', c) = subscribed_chats'
       /\ last'.step = "unsubscribe" =>
              LET c == last'.chat_id
                  before == subscribed_chats[c]
                  after == subscribed_chats'[c]
              IN  /\ last'.report = <<before.present /\ before.is_active>>
                  /\ after.present = before.present
                  /\ ~after.is_active
                  /\ WindowOf(after) = WindowOf(before)
                  /\ ~(before.present /\ before.is_active) =>
                         subscribed_chats' = subscribed_chats
                  /\ ~was_subscribed(subscribed_chats', c)
                  /\ unsubscribe_chat(subscribed_chats', c) = subscribed_chats'
       /\ last'.step \in {"subscribe", "unsubscribe"} =>
              /\ \A d \in Chats \ {last'.chat_id} :
                     subscribed_chats'[d] = subscribed_chats[d]
              /\ sent_messages' = sent_messages
              /\ pending_notifications' = pending_notifications
       /\ (last'.step = last.step /\ last'.chat_id = last.chat_id
           /\ last.step \in {"subscribe", "unsubscribe"}) =>
              /\ last'.report = <<FALSE>>
              /\ subscribed_chats' = subscribed_chats
      ]_vars

\* Chat 1, unsubscribed with the night window stored, a record and a queued
\* notification, has been subscribed again: the call returned true and the
\* window, the record and the queue are still there.
C38_Witness ==
    /\ last.step = "subscribe"
    /\ last.chat_id = 1
    /\ last.report = <<TRUE>>
    /\ subscribed_chats[1].is_active
    /\ WindowOf(subscribed_chats[1]) = WindowOf([NightWindow EXCEPT !.quiet_hours_tz = "UTC"])
    /\ SentV1(1) \in sent_messages
    /\ pending_notifications = <<QueuedRow(1)>>
    /\ commands = 2


\* The rows of a chat logged in the minute that ends at t.
LoggedWithin(log, c, t) ==
    Cardinality({k \in 1..Len(log) :
                    /\ log[k].chat_id = c
                    /\ log[k].timestamp > t - RateWindow
                    /\ log[k].timestamp <= t})

\* C39: a command of a chat is accepted iff fewer than rate_limit_commands
\* commands of that chat were logged in the 60 seconds before it; exactly the
\* accepted commands are logged; and no 60-second window holds more than
\* rate_limit_commands logged commands of one chat.
C39_RateLimit ==
    [][last'.step = "command" =>
           LET c == last'.chat_id
               accepted == LoggedWithin(command_log, c, now) < rate_limit_commands
           IN  /\ last'.outcome = IF accepted THEN "accepted" ELSE "rejected"
               /\ command_log' = IF accepted THEN log_command(command_log, c, "help", now)
                                 ELSE command_log
               /\ \A t \in RateStart..RateEnd :
                      LoggedWithin(command_log', c, t) <= rate_limit_commands]_vars

====
